---- MODULE Spec2Model ----
(***************************************************************************)
(* Persistence engine of FlyzexBot (flyzexbot/services/storage.py): the    *)
(* in-memory StorageState, the asyncio lock, the snapshot writer with its  *)
(* temporary file and rename, the staleness signature and the reload.      *)
(*                                                                         *)
(* Tasks are asyncio coroutines on one event loop: a step of the model is  *)
(* the code a task runs between two suspension points.  Acquiring a free   *)
(* asyncio.Lock does not suspend, so the locked body of a mutating         *)
(* operation and the _snapshot() that follows it are one step; every       *)
(* aiofiles call and every asyncio.to_thread call is a suspension point.   *)
(***************************************************************************)
EXTENDS Integers, Sequences, FiniteSets, TLC

\* ------------------------------------------------------------------ bounds
MaxOps == 2
MaxFail == 1
MaxExt == 1
MaxTime == 1

Tasks == {1, 2}
Users == {1, 2}
ChatIds == {100}

\* ------------------------------------------------------------ plain values
None == "null"
EmptyMap == [k \in {} |-> 0]

Put(f, k, v) == [y \in (DOMAIN f) \cup {k} |-> IF y = k THEN v ELSE f[y]]
Remove(f, k) == [y \in (DOMAIN f) \ {k} |-> f[y]]
Get(f, k, default) == IF k \in DOMAIN f THEN f[k] ELSE default
Range(s) == {s[i] : i \in DOMAIN s}

\* str(int) and int(str) on the ids the model uses
Str(i) == CASE i = 1 -> "1" [] i = 2 -> "2" [] i = 100 -> "100"
IntOf(s) == CASE s = "1" -> 1 [] s = "2" -> 2 [] s = "100" -> 100

\* A stored timestamp: the display string of instant t, a legacy ISO-8601
\* string of instant t, the empty string, or an absent value.
Disp(t) == <<"disp", t>>
Iso(t) == <<"iso", t>>
EmptyTs == <<"empty", 0>>
NoneTs == <<"none", 0>>

format_timestamp(t) == Disp(t)

normalize_timestamp(value) ==
    IF value = EmptyTs \/ value = NoneTs THEN EmptyTs
    ELSE IF value[1] = "iso" THEN format_timestamp(value[2])
    ELSE value

\* ------------------------------------------------------------ StorageState
StorageState ==
    [admins |-> <<>>,
     admin_profiles |-> EmptyMap,
     applications |-> EmptyMap,
     application_history |-> EmptyMap,
     xp |-> EmptyMap,
     xp_profiles |-> EmptyMap,
     cups |-> EmptyMap,
     application_questions |-> EmptyMap]

Application(user_id, full_name, username, answer, created_at, language_code, responses) ==
    [user_id |-> user_id, full_name |-> full_name, username |-> username,
     answer |-> answer, created_at |-> created_at,
     language_code |-> language_code, responses |-> responses]

ApplicationHistoryEntry(status, updated_at, note, language_code) ==
    [status |-> status, updated_at |-> updated_at, note |-> note,
     language_code |-> language_code]

\* the value a missing key of an XP profile reads as
NoneOf(key) ==
    IF key \in {"updated_at", "updated_at_iso"} THEN NoneTs
    ELSE IF key = "chats" THEN <<>>
    ELSE None

\* `value not in (None, "")`
IsBlank(key, value) ==
    IF key \in {"updated_at", "updated_at_iso"} THEN value = NoneTs
    ELSE IF key = "chats" THEN FALSE
    ELSE value \in {None, ""}

Restrict(f, keys) == [k \in keys |-> f[k]]

to_dict(s) ==
    [admins |-> s.admins,
     admin_profiles |->
        [k \in {Str(u) : u \in DOMAIN s.admin_profiles} |->
            LET profile == s.admin_profiles[IntOf(k)]
            IN  Restrict(profile, {f \in DOMAIN profile : profile[f] # None})],
     applications |->
        [k \in {Str(u) : u \in DOMAIN s.applications} |-> s.applications[IntOf(k)]],
     application_history |->
        [k \in {Str(u) : u \in DOMAIN s.application_history} |->
            s.application_history[IntOf(k)]],
     xp |-> s.xp,
     xp_profiles |->
        [k \in DOMAIN s.xp_profiles |->
            LET profile == s.xp_profiles[k]
            IN  Restrict(profile, {f \in DOMAIN profile : ~IsBlank(f, profile[f])})],
     cups |-> s.cups,
     application_questions |-> s.application_questions]

from_dict(payload) ==
    LET section(name) == Get(payload, name, EmptyMap)
        apps == section("applications")
        hist == section("application_history")
        profs == section("admin_profiles")
        xps == section("xp_profiles")
        cups == section("cups")
        qs == section("application_questions")
        Complete(response) == {"question_id", "question", "answer"} \subseteq DOMAIN response
    IN
    [admins |-> Get(payload, "admins", <<>>),
     admin_profiles |->
        [u \in {IntOf(k) : k \in DOMAIN profs} |->
            LET profile == profs[Str(u)]
            IN  Restrict(profile, {f \in DOMAIN profile : profile[f] \notin {None, ""}})],
     applications |->
        [u \in {IntOf(k) : k \in DOMAIN apps} |->
            LET value == apps[Str(u)]
            IN  Application(value.user_id,
                            Get(value, "full_name", ""),
                            Get(value, "username", None),
                            Get(value, "answer", None),
                            normalize_timestamp(Get(value, "created_at", EmptyTs)),
                            Get(value, "language_code", None),
                            SelectSeq(Get(value, "responses", <<>>), Complete))],
     application_history |->
        [u \in {IntOf(k) : k \in DOMAIN hist} |->
            LET value == hist[Str(u)]
            IN  ApplicationHistoryEntry(Get(value, "status", ""),
                                        normalize_timestamp(Get(value, "updated_at", EmptyTs)),
                                        Get(value, "note", None),
                                        Get(value, "language_code", None))],
     xp |-> section("xp"),
     xp_profiles |->
        [k \in DOMAIN xps |->
            LET profile == xps[k]
            IN  [username |-> Get(profile, "username", None),
                 full_name |-> Get(profile, "full_name", None),
                 updated_at |-> Get(profile, "updated_at", NoneTs),
                 last_chat |-> Get(profile, "last_chat", None),
                 chats |-> Get(profile, "chats", <<>>)]],
     cups |->
        [k \in DOMAIN cups |->
            [i \in DOMAIN cups[k] |->
                Put(cups[k][i], "created_at",
                    normalize_timestamp(Get(cups[k][i], "created_at", EmptyTs)))]],
     application_questions |->
        [l \in DOMAIN qs |->
            Restrict(qs[l], {q \in DOMAIN qs[l] : qs[l][q] \notin {"", " "}})]]

\* ------------------------------------------------------------- bytes, files
\* json.dumps(...).encode() is injective on payloads, so the bytes of a complete
\* snapshot are modelled by the payload itself together with their length;
\* a truncated or overwritten file is not decodable.
RECURSIVE SumOver(_, _)
SumOver(f, keys) ==
    IF keys = {} THEN 0
    ELSE LET k == CHOOSE x \in keys : TRUE
         IN  Len(f[k]) + SumOver(f, keys \ {k})

MapSize(f) == Cardinality(DOMAIN f)

RECURSIVE SumMap(_, _)
SumMap(f, keys) ==
    IF keys = {} THEN 0
    ELSE LET k == CHOOSE x \in keys : TRUE
         IN  MapSize(f[k]) + SumMap(f, keys \ {k})

\* length of the encoded payload, counted in entries rather than characters:
\* payloads of the same shape have the same length, as they do on disk when
\* only an id or a digit differs
PayloadSize(p) ==
    2 + Len(p.admins)
      + MapSize(p.admin_profiles) + SumMap(p.admin_profiles, DOMAIN p.admin_profiles)
      + 7 * MapSize(p.applications)
      + 4 * MapSize(p.application_history)
      + MapSize(p.xp) + SumOver(p.xp, DOMAIN p.xp)
      + MapSize(p.xp_profiles) + SumMap(p.xp_profiles, DOMAIN p.xp_profiles)
      + MapSize(p.cups) + 4 * SumOver(p.cups, DOMAIN p.cups)
      + MapSize(p.application_questions)
      + SumMap(p.application_questions, DOMAIN p.application_questions)

Bytes(p) == [kind |-> "full", p |-> p, size |-> PayloadSize(p)]
NoBytes == [kind |-> "empty", p |-> EmptyMap, size |-> 0]
Absent == [kind |-> "absent", p |-> EmptyMap, size |-> 0]
Garbled(n) == [kind |-> "garbled", p |-> EmptyMap, size |-> n]
\* well-formed JSON that is not a snapshot object, such as []
Alien == [kind |-> "alien", p |-> EmptyMap, size |-> 2]

\* data[:max(1, len(data) // 2)]
Prefix(b) ==
    [kind |-> "prefix", p |-> b.p, size |-> IF b.size \div 2 < 1 THEN 1 ELSE b.size \div 2]

\* a write of b at offset 0 of a file that holds old
WriteAt0(old, b) == IF old.size <= b.size THEN b ELSE Garbled(old.size)

\* ------------------------------------------------------------ text helpers
Strip(s) == CASE s = " " -> "" [] s = " P " -> "P" [] OTHER -> s
LStripAt(s) == CASE s = "@bob" -> "bob" [] s = "@" -> "" [] OTHER -> s
Lower(s) == CASE s = "FA" -> "fa" [] OTHER -> s
Truthy(s) == s \notin {None, ""}

\* username.strip() if str, then lstrip("@") or None
NormalizeUsername(username) ==
    IF username = None THEN None
    ELSE IF ~Truthy(Strip(username)) THEN Strip(username)
    ELSE IF LStripAt(Strip(username)) = "" THEN None
    ELSE LStripAt(Strip(username))

NormalizeFullName(full_name) == IF full_name = None THEN None ELSE Strip(full_name)

DEFAULT_LANGUAGE_KEY == "__default__"

_normalise_language_key(language_code) ==
    IF language_code = None THEN DEFAULT_LANGUAGE_KEY
    ELSE IF Strip(language_code) = "" THEN DEFAULT_LANGUAGE_KEY
    ELSE Lower(Strip(language_code))

\* an insertion-ordered dict: a sequence of <<key, value>> pairs
OKeys(d) == {d[i][1] : i \in DOMAIN d}
OGet(d, k, default) ==
    IF k \in OKeys(d) THEN d[CHOOSE i \in DOMAIN d : d[i][1] = k][2] ELSE default
OPut(d, k, v) ==
    IF k \in OKeys(d)
    THEN [i \in DOMAIN d |-> IF d[i][1] = k THEN <<k, v>> ELSE d[i]]
    ELSE Append(d, <<k, v>>)

\* list.remove(x): drops the first occurrence
RemoveFirst(s, x) ==
    LET i == CHOOSE j \in DOMAIN s : s[j] = x /\ \A h \in 1..(j - 1) : s[h] # x
    IN  SubSeq(s, 1, i - 1) \o SubSeq(s, i + 1, Len(s))

\* ------------------------------------------------- locked bodies of the API
\* Each body maps the state before to [state, result, save]: the state after,
\* the value the operation returns, and whether save() is called afterwards.
Outcome(s, result, save) == [state |-> s, result |-> result, save |-> save]

\* add_admin that reports a change and saves whatever it found
add_adminAlwaysChanged(s, user_id, username, full_name) ==
    LET normalized_username == NormalizeUsername(username)
        normalized_full_name == NormalizeFullName(full_name)
        profile0 == Get(s.admin_profiles, user_id, EmptyMap)
        isNew == user_id \notin Range(s.admins)
        admins1 == IF isNew THEN Append(s.admins, user_id) ELSE s.admins
        setU == Truthy(normalized_username)
                /\ Get(profile0, "username", None) # normalized_username
        profile1 == IF setU THEN Put(profile0, "username", normalized_username) ELSE profile0
        setF == Truthy(normalized_full_name)
                /\ Get(profile1, "full_name", None) # normalized_full_name
        profile2 == IF setF THEN Put(profile1, "full_name", normalized_full_name) ELSE profile1
        changed == TRUE
        profiles == IF profile2 = EmptyMap
                    THEN Remove(s.admin_profiles, user_id)
                    ELSE Put(s.admin_profiles, user_id, profile2)
    IN  Outcome([s EXCEPT !.admins = admins1, !.admin_profiles = profiles], changed, changed)

\* add_admin that appends the id without looking at the list
add_adminAppends(s, user_id, username, full_name) ==
    LET normalized_username == NormalizeUsername(username)
        normalized_full_name == NormalizeFullName(full_name)
        profile0 == Get(s.admin_profiles, user_id, EmptyMap)
        isNew == user_id \notin Range(s.admins)
        admins1 == Append(s.admins, user_id)
        setU == Truthy(normalized_username)
                /\ Get(profile0, "username", None) # normalized_username
        profile1 == IF setU THEN Put(profile0, "username", normalized_username) ELSE profile0
        setF == Truthy(normalized_full_name)
                /\ Get(profile1, "full_name", None) # normalized_full_name
        profile2 == IF setF THEN Put(profile1, "full_name", normalized_full_name) ELSE profile1
        changed == isNew \/ setU \/ setF
        profiles == IF profile2 = EmptyMap
                    THEN Remove(s.admin_profiles, user_id)
                    ELSE Put(s.admin_profiles, user_id, profile2)
    IN  Outcome([s EXCEPT !.admins = admins1, !.admin_profiles = profiles], changed, changed)

add_admin(s, user_id, username, full_name) ==
    LET normalized_username == NormalizeUsername(username)
        normalized_full_name == NormalizeFullName(full_name)
        profile0 == Get(s.admin_profiles, user_id, EmptyMap)
        isNew == user_id \notin Range(s.admins)
        admins1 == IF isNew THEN Append(s.admins, user_id) ELSE s.admins
        setU == Truthy(normalized_username)
                /\ Get(profile0, "username", None) # normalized_username
        profile1 == IF setU THEN Put(profile0, "username", normalized_username) ELSE profile0
        setF == Truthy(normalized_full_name)
                /\ Get(profile1, "full_name", None) # normalized_full_name
        profile2 == IF setF THEN Put(profile1, "full_name", normalized_full_name) ELSE profile1
        changed == isNew \/ setU \/ setF
        profiles == IF profile2 = EmptyMap
                    THEN Remove(s.admin_profiles, user_id)
                    ELSE Put(s.admin_profiles, user_id, profile2)
    IN  Outcome([s EXCEPT !.admins = admins1, !.admin_profiles = profiles], changed, changed)

\* remove_admin that leaves the profile of the removed admin
remove_adminKeepsProfile(s, user_id) ==
    IF user_id \notin Range(s.admins) THEN Outcome(s, FALSE, FALSE)
    ELSE Outcome([s EXCEPT !.admins = RemoveFirst(s.admins, user_id)], TRUE, TRUE)

remove_admin(s, user_id) ==
    IF user_id \notin Range(s.admins) THEN Outcome(s, FALSE, FALSE)
    ELSE Outcome([s EXCEPT !.admins = RemoveFirst(s.admins, user_id),
                           !.admin_profiles = Remove(s.admin_profiles, user_id)],
                 TRUE, TRUE)

\* set_application_question that keeps a bucket it has emptied
set_application_questionKeepsBucket(s, question_id, prompt, language_code) ==
    LET normalised_id == Strip(IF question_id = None THEN "" ELSE question_id)
        trimmed_prompt == Strip(IF prompt = None THEN "" ELSE prompt)
        language_key == _normalise_language_key(language_code)
        bucket == Get(s.application_questions, language_key, EmptyMap)
        withBucket == [s EXCEPT !.application_questions = Put(@, language_key, bucket)]
    IN  IF normalised_id = "" THEN Outcome(s, FALSE, FALSE)
        ELSE IF trimmed_prompt # ""
        THEN IF Get(bucket, normalised_id, None) = trimmed_prompt
             THEN Outcome(withBucket, FALSE, FALSE)
             ELSE Outcome([s EXCEPT !.application_questions =
                               Put(@, language_key, Put(bucket, normalised_id, trimmed_prompt))],
                          TRUE, TRUE)
        ELSE IF normalised_id \notin DOMAIN bucket
             THEN Outcome(withBucket, FALSE, FALSE)
             ELSE Outcome([s EXCEPT !.application_questions =
                               Put(@, language_key, Remove(bucket, normalised_id))],
                          TRUE, TRUE)

set_application_question(s, question_id, prompt, language_code) ==
    LET normalised_id == Strip(IF question_id = None THEN "" ELSE question_id)
        trimmed_prompt == Strip(IF prompt = None THEN "" ELSE prompt)
        language_key == _normalise_language_key(language_code)
        bucket == Get(s.application_questions, language_key, EmptyMap)
        \* setdefault(language_key, {}) leaves the bucket in the mapping
        withBucket == [s EXCEPT !.application_questions = Put(@, language_key, bucket)]
    IN  IF normalised_id = "" THEN Outcome(s, FALSE, FALSE)
        ELSE IF trimmed_prompt # ""
        THEN IF Get(bucket, normalised_id, None) = trimmed_prompt
             THEN Outcome(withBucket, FALSE, FALSE)
             ELSE Outcome([s EXCEPT !.application_questions =
                               Put(@, language_key, Put(bucket, normalised_id, trimmed_prompt))],
                          TRUE, TRUE)
        ELSE IF normalised_id \notin DOMAIN bucket
             THEN Outcome(withBucket, FALSE, FALSE)
             ELSE LET rest == Remove(bucket, normalised_id)
                  IN  Outcome([s EXCEPT !.application_questions =
                                   IF rest = EmptyMap THEN Remove(@, language_key)
                                   ELSE Put(@, language_key, rest)],
                              TRUE, TRUE)

\* sorted(items, key=..., reverse=True) with rank[i] the key of items[i]: the
\* sort is stable, so items of equal key stay in the order they came in
SortedDescending(items, rank) ==
    LET place(i) == 1 + Cardinality({j \in DOMAIN items :
                            rank[j] > rank[i] \/ (rank[j] = rank[i] /\ j < i)})
    IN  [k \in DOMAIN items |-> items[CHOOSE i \in DOMAIN items : place(i) = k]]

\* items[:limit]
Slice(items, limit) ==
    IF limit >= Len(items) THEN items
    ELSE IF limit >= 0 THEN SubSeq(items, 1, limit)
    ELSE IF Len(items) + limit > 0 THEN SubSeq(items, 1, Len(items) + limit)
    ELSE <<>>

\* where a stored timestamp stands in the order of strings: the empty string
\* first, then the display strings in the order of their instants (every field
\* of "%Y/%m/%d · %H:%M:%S" is zero-padded)
StringRank(ts) == IF ts[1] = "disp" THEN ts[2] + 1 ELSE 0

\* a leaderboard sorted ascending and then reversed: equal scores come out in
\* the reverse of the order of the ledger
get_xp_leaderboardTiesReversed(s, chat_id, limit) ==
    LET scores == Get(s.xp, Str(chat_id), <<>>)
        place(i) == 1 + Cardinality({j \in DOMAIN scores :
                            scores[j][2] > scores[i][2]
                                \/ (scores[j][2] = scores[i][2] /\ j > i)})
        sorted_scores == [k \in DOMAIN scores |->
                             scores[CHOOSE i \in DOMAIN scores : place(i) = k]]
    IN  Slice(sorted_scores, limit)

get_xp_leaderboard(s, chat_id, limit) ==
    LET scores == Get(s.xp, Str(chat_id), <<>>)
        sorted_scores == SortedDescending(scores, [i \in DOMAIN scores |-> scores[i][2]])
    IN  Slice(sorted_scores, limit)

\* get_cups that returns the cups in the order they were recorded
get_cupsUnsorted(s, chat_id, limit) == Slice(Get(s.cups, Str(chat_id), <<>>), limit)

get_cups(s, chat_id, limit) ==
    LET cups == Get(s.cups, Str(chat_id), <<>>)
        cups_sorted == SortedDescending(cups,
                           [i \in DOMAIN cups |-> StringRank(cups[i].created_at)])
    IN  Slice(cups_sorted, limit)

\* dict.update(other)
Update(d, other) ==
    [k \in (DOMAIN d) \cup (DOMAIN other) |-> IF k \in DOMAIN other THEN other[k] ELSE d[k]]

\* an overlay in which the default bucket wins over the language's bucket
get_application_questionsDefaultWins(s, language_code) ==
    LET language_key == _normalise_language_key(language_code)
        default_bucket == Get(s.application_questions, DEFAULT_LANGUAGE_KEY, EmptyMap)
    IN  Update(Get(s.application_questions, language_key, EmptyMap), default_bucket)

get_application_questions(s, language_code) ==
    LET language_key == _normalise_language_key(language_code)
        default_bucket == Get(s.application_questions, DEFAULT_LANGUAGE_KEY, EmptyMap)
        overrides == IF default_bucket # EmptyMap THEN Update(EmptyMap, default_bucket)
                     ELSE EmptyMap
    IN  IF language_key # DEFAULT_LANGUAGE_KEY
        THEN Update(overrides, Get(s.application_questions, language_key, EmptyMap))
        ELSE overrides

\* add_application without the check of the history entry
add_applicationIgnoresApproval(s, t, user_id, full_name, username, answer, language_code, responses) ==
    LET timestamp == format_timestamp(t)
    IN  IF user_id \in DOMAIN s.applications THEN Outcome(s, FALSE, FALSE)
        ELSE Outcome(
                [s EXCEPT
                    !.applications = Put(@, user_id,
                        Application(user_id, full_name, username, answer, timestamp,
                                    language_code, responses)),
                    !.application_history = Put(@, user_id,
                        ApplicationHistoryEntry("pending", timestamp, None, language_code))],
                TRUE, TRUE)

add_application(s, t, user_id, full_name, username, answer, language_code, responses) ==
    LET approved == user_id \in DOMAIN s.application_history
                    /\ s.application_history[user_id].status = "approved"
        timestamp == format_timestamp(t)
    IN  IF approved THEN Outcome(s, FALSE, FALSE)
        ELSE IF user_id \in DOMAIN s.applications THEN Outcome(s, FALSE, FALSE)
        ELSE Outcome(
                [s EXCEPT
                    !.applications = Put(@, user_id,
                        Application(user_id, full_name, username, answer, timestamp,
                                    language_code, responses)),
                    !.application_history = Put(@, user_id,
                        ApplicationHistoryEntry("pending", timestamp, None, language_code))],
                TRUE, TRUE)

\* pop_application that removes the application and calls no save()
pop_applicationNoFlush(s, user_id) ==
    IF user_id \in DOMAIN s.applications
    THEN Outcome([s EXCEPT !.applications = Remove(@, user_id)], "application", FALSE)
    ELSE Outcome(s, None, FALSE)

pop_application(s, user_id) ==
    IF user_id \in DOMAIN s.applications
    THEN Outcome([s EXCEPT !.applications = Remove(@, user_id)], "application", TRUE)
    ELSE Outcome(s, None, FALSE)

\* withdraw_application that removes the application and leaves the history entry
withdraw_applicationKeepsHistory(s, t, user_id) ==
    IF user_id \notin DOMAIN s.applications THEN Outcome(s, FALSE, FALSE)
    ELSE Outcome([s EXCEPT !.applications = Remove(@, user_id)], TRUE, TRUE)

withdraw_application(s, t, user_id) ==
    IF user_id \notin DOMAIN s.applications THEN Outcome(s, FALSE, FALSE)
    ELSE Outcome(
            [s EXCEPT
                !.applications = Remove(@, user_id),
                !.application_history = Put(@, user_id,
                    ApplicationHistoryEntry("withdrawn", format_timestamp(t), None,
                                            s.applications[user_id].language_code))],
            TRUE, TRUE)

mark_application_status(s, t, user_id, status, note, language_code) ==
    LET previous_language ==
            IF user_id \in DOMAIN s.application_history
            THEN s.application_history[user_id].language_code ELSE None
        language == IF Truthy(language_code) THEN language_code ELSE previous_language
    IN  Outcome([s EXCEPT !.application_history = Put(@, user_id,
                    ApplicationHistoryEntry(status, format_timestamp(t), note, language))],
                None, TRUE)

\* the score the ledger of state s holds for (chat, user), 0 when it holds none
ScoreOf(s, chat_id, user_id) == OGet(Get(s.xp, Str(chat_id), <<>>), Str(user_id), 0)

\* add_xp that stores the amount in place of the sum
add_xpOverwrites(s, t, chat_id, user_id, amount, full_name, username) ==
    LET chat_key == Str(chat_id)
        user_key == Str(user_id)
        scores == Get(s.xp, chat_key, <<>>)
    IN  Outcome([s EXCEPT !.xp = Put(@, chat_key, OPut(scores, user_key, amount))],
                "score", TRUE)

add_xp(s, t, chat_id, user_id, amount, full_name, username) ==
    LET chat_key == Str(chat_id)
        user_key == Str(user_id)
        scores == Get(s.xp, chat_key, <<>>)
        profile0 == Get(s.xp_profiles, user_key, EmptyMap)
        normalized_username == NormalizeUsername(username)
        normalized_full_name == NormalizeFullName(full_name)
        profile1 == IF Truthy(normalized_username)
                    THEN Put(profile0, "username", normalized_username) ELSE profile0
        profile2 == IF Truthy(normalized_full_name)
                    THEN Put(profile1, "full_name", normalized_full_name) ELSE profile1
        chats0 == Get(profile2, "chats", <<>>)
        chats == IF chat_key \in Range(chats0) THEN chats0 ELSE Append(chats0, chat_key)
        profile == Put(Put(Put(Put(profile2, "chats", chats), "last_chat", chat_key),
                           "updated_at", format_timestamp(t)), "updated_at_iso", Iso(t))
    IN  Outcome([s EXCEPT
                    !.xp = Put(@, chat_key,
                               OPut(scores, user_key, OGet(scores, user_key, 0) + amount)),
                    !.xp_profiles = Put(@, user_key, profile)],
                "score", TRUE)

add_cup(s, t, chat_id, title, description, podium) ==
    LET chat_key == Str(chat_id)
    IN  Outcome([s EXCEPT !.cups = Put(@, chat_key,
                    Append(Get(s.cups, chat_key, <<>>),
                           [title |-> title, description |-> description,
                            podium |-> podium, created_at |-> format_timestamp(t)]))],
                None, TRUE)

\* a call of the API: the operation and its arguments
Body(o, s, t) ==
    CASE o.name = "add_admin" -> add_admin(s, o.user_id, o.username, o.full_name)
      [] o.name = "remove_admin" -> remove_admin(s, o.user_id)
      [] o.name = "set_application_question" ->
            set_application_question(s, o.question_id, o.prompt, o.language_code)
      [] o.name = "add_application" ->
            add_application(s, t, o.user_id, "User", None, "Answer", o.language_code, <<>>)
      [] o.name = "pop_application" -> pop_application(s, o.user_id)
      [] o.name = "withdraw_application" -> withdraw_application(s, t, o.user_id)
      [] o.name = "mark_application_status" ->
            mark_application_status(s, t, o.user_id, o.status, None, o.language_code)
      [] o.name = "add_xp" -> add_xp(s, t, o.chat_id, o.user_id, o.amount, None, o.username)
      [] o.name = "add_cup" -> add_cup(s, t, o.chat_id, "Cup", "Desc", <<"A", "B", "C">>)

\* ------------------------------------------------------------------- state
VARIABLES
    _state,               \* Storage._state
    _lock,                \* holder of Storage._lock, 0 when it is free
    waiters,              \* asyncio.Lock._waiters, in arrival order
    _snapshot_signature,  \* Storage._snapshot_signature
    pc, op, res,          \* per task: position, current call, returned value
    payload,              \* per task: the bytes _snapshot() returned
    fd, buf,              \* per task: open file (inode) and bytes read by load()
    primary, tmp, inode,  \* the two paths (an inode id, 0 when absent) and the inodes
    now,                  \* the clock behind st_mtime and format_timestamp()
    ops, fails, ext, budget,
    _backup_path, backup, \* whether a backup path is configured; the mirror's content
    flushed, bfailed,     \* history of the mirror, read only by the properties
    _persistence_enabled, \* Storage._persistence_enabled
    frozen, replaces,     \* history of the files, read only by the properties
    pending_review_note,  \* context.user_data["pending_review_note"] of the reviewing admin
    _entries,             \* RateLimitGuard._entries
    mono,                 \* time.monotonic()
    admitted, verdict,    \* history of the guard, read only by the properties
    total_xp, progress,   \* the argument and the result of calculate_level_progress
    \* history variables, read only by the properties
    id, log, plog, failed, pre, touched, synced, extDirty, before, after

vars == <<_state, _lock, waiters, _snapshot_signature, pc, op, res, payload, fd, buf,
          primary, tmp, inode, now, ops, fails, ext, budget,
          _backup_path, backup, flushed, bfailed, _persistence_enabled, frozen, replaces,
          pending_review_note, _entries, mono, admitted, verdict, total_xp, progress,
          id, log, plog, failed, pre, touched, synced, extDirty, before, after>>

engineVars == <<_state, _lock, waiters, _snapshot_signature>>
fsVars == <<primary, tmp, inode, fd>>
histVars == <<id, log, plog, failed, pre, touched, synced, extDirty, before, after>>
sideVars == <<pending_review_note, _entries, mono, admitted, verdict, total_xp, progress>>
mirrorVars == <<_backup_path, backup, flushed, bfailed, _persistence_enabled, frozen, replaces>>

\* the backup mirror: nothing yet, the dump of a payload, or what a dump that
\* failed half-way left; `by` is the call that wrote it
NoMirror == [kind |-> "none", p |-> EmptyMap, by |-> 0]
Mirror(b, n) == [kind |-> "full", p |-> b.p, by |-> n]
BrokenMirror(n) == [kind |-> "partial", p |-> EmptyMap, by |-> n]

\* what the two files held when persistence was switched off
NoFiles == [primary |-> NoBytes, backup |-> NoMirror]

NoSig == <<>>

\* how the last call of a task ended: the value it returned, the exception it
\* raised, or, for load() and ensure_latest_snapshot(), the branch it took
Returns(v) == [status |-> "returned", value |-> v]
Raises == [status |-> "raised", value |-> None]
Path(branch) == [status |-> branch, value |-> None]
NoOp == [name |-> "none"]
InodeIds == 1..(Cardinality(Tasks) + 2)
FreeInode == [data |-> Absent, mtime |-> 0, log |-> {}]

Referenced(pr, tm, fds) == ({pr, tm} \cup {fds[t] : t \in Tasks}) \ {0}
Fresh(pr, tm, fds) ==
    CHOOSE i \in InodeIds \ Referenced(pr, tm, fds) :
        \A j \in InodeIds \ Referenced(pr, tm, fds) : i <= j

\* the file system after a step: inodes no path and no descriptor refers to are gone
SetFs(ino, pr, tm, fds) ==
    /\ inode' = [i \in InodeIds |-> IF i \in Referenced(pr, tm, fds) THEN ino[i] ELSE FreeInode]
    /\ primary' = pr
    /\ tmp' = tm
    /\ fd' = fds

_compute_snapshot_signature(pr, ino) ==
    IF pr = 0 THEN NoSig ELSE <<ino[pr].mtime, ino[pr].data.size>>

PrimaryData == IF primary = 0 THEN Absent ELSE inode[primary].data
PrimaryLog == IF primary = 0 THEN {} ELSE inode[primary].log

Mutators == {"add_admin", "remove_admin", "add_application", "pop_application",
             "withdraw_application", "mark_application_status",
             "set_application_question", "add_xp", "add_cup"}

\* another actor used the file system since these tasks began their last call
Touch(actor) == [t \in Tasks |-> IF t # actor THEN TRUE ELSE touched[t]]

\* what the locked section of a call found when it ran: the state, the
\* signature, the holder of the lock
NoView == [ran |-> FALSE, state |-> StorageState, sig |-> NoSig, synced |-> FALSE, lock |-> 0]
View == [ran |-> TRUE, state |-> _state, sig |-> _snapshot_signature, synced |-> synced,
         lock |-> _lock]
Forget(t) ==
    /\ before' = [before EXCEPT ![t] = NoView]
    /\ after' = [after EXCEPT ![t] = StorageState]

\* what a previous run of the process left at the primary path
PreviousRun == [data |-> Bytes(to_dict([StorageState EXCEPT !.admins = <<1>>])),
                mtime |-> 0, log |-> {}]

\* A Storage that has just been constructed: empty state, no signature, the lock
\* free.  The primary file is absent (first start) or left by a previous run.
Built(backup_path, calls) ==
    /\ _state = StorageState
    /\ _lock = 0
    /\ waiters = <<>>
    /\ _snapshot_signature = NoSig
    /\ pc = [t \in Tasks |-> "idle"]
    /\ op = [t \in Tasks |-> NoOp]
    /\ res = [t \in Tasks |-> Path("none")]
    /\ payload = [t \in Tasks |-> NoBytes]
    /\ fd = [t \in Tasks |-> 0]
    /\ buf = [t \in Tasks |-> FreeInode]
    /\ \/ primary = 0 /\ inode = [i \in InodeIds |-> FreeInode]
       \/ primary = 1 /\ inode = [i \in InodeIds |-> IF i = 1 THEN PreviousRun ELSE FreeInode]
    /\ tmp = 0
    /\ now = 0
    /\ ops = 0
    /\ fails = 0
    /\ ext = 0
    /\ budget = calls
    /\ id = [t \in Tasks |-> 0]
    /\ log = {}
    /\ plog = [t \in Tasks |-> {}]
    /\ failed = {}
    /\ pre = [t \in Tasks |-> Absent]
    /\ touched = [t \in Tasks |-> FALSE]
    /\ synced = FALSE
    /\ extDirty = FALSE
    /\ before = [t \in Tasks |-> NoView]
    /\ after = [t \in Tasks |-> StorageState]
    /\ _backup_path = backup_path
    /\ backup = NoMirror
    /\ flushed = EmptyMap
    /\ bfailed = {}
    /\ _persistence_enabled = TRUE
    /\ frozen = NoFiles
    /\ replaces = <<>>
    /\ pending_review_note = [target_id |-> 0, action |-> "none", language_code |-> None]
    /\ _entries = [k \in Users |-> <<>>]
    /\ mono = 0
    /\ admitted = [k \in Users |-> <<>>]
    /\ verdict = [n |-> 0, key |-> 0, now |-> 0, allowed |-> FALSE, earlier |-> <<>>,
                  entries |-> [k \in Users |-> <<>>]]
    /\ total_xp = 0
    /\ progress = [level |-> -1, total_xp |-> 0, current_threshold |-> 0, next_threshold |-> 0]

\* the engine of a caller that issues MaxOps calls
Constructed(backup_path) == Built(backup_path, MaxOps)

\* Storage(path): no backup path
Init == Constructed(FALSE)

\* Time passes between two readings of the clock: a step that reads it (a
\* timestamp, the st_mtime of a file it writes) finds it unchanged or advanced.
Clock == {now} \cup (IF now < MaxTime THEN {now + 1} ELSE {})

\* the operations whose body reads the clock
Timestamping == {"add_application", "withdraw_application", "mark_application_status",
                 "add_xp", "add_cup"}
ClockOf(o) == IF o.name \in Timestamping THEN Clock ELSE {now}

\* ------------------------------------------------ save(): _snapshot() first
\* an acquisition that looks at the queue and not at the holder
LockFastIgnoresHolder(w) == w = <<>>

\* `async with self._lock` returns at once when the lock is free and nobody is
\* queued; otherwise the task queues and suspends.
LockFast(w) == _lock = 0 /\ w = <<>>

\* a save() that writes whether or not persistence is enabled
SaveIgnoresSwitch(t, s, l, w) ==
    IF LockFast(w)
    THEN /\ payload' = [payload EXCEPT ![t] = Bytes(to_dict(s))]
         /\ plog' = [plog EXCEPT ![t] = l]
         /\ pc' = [pc EXCEPT ![t] = "w_open"]
         /\ waiters' = w
    ELSE /\ pc' = [pc EXCEPT ![t] = "s_wait"]
         /\ waiters' = Append(w, t)
         /\ UNCHANGED <<payload, plog>>

\* save() after a locked body released the lock; w is the queue without the task
Save(t, s, l, w) ==
    IF ~_persistence_enabled
    THEN /\ pc' = [pc EXCEPT ![t] = "idle"]
         /\ waiters' = w
         /\ UNCHANGED <<payload, plog>>
    ELSE IF LockFast(w)
    THEN /\ payload' = [payload EXCEPT ![t] = Bytes(to_dict(s))]
         /\ plog' = [plog EXCEPT ![t] = l]
         /\ pc' = [pc EXCEPT ![t] = "w_open"]
         /\ waiters' = w
    ELSE /\ pc' = [pc EXCEPT ![t] = "s_wait"]
         /\ waiters' = Append(w, t)
         /\ UNCHANGED <<payload, plog>>

\* the locked body of a mutating operation, then save() when it changed something
Locked(t, o, n, w, c) ==
    LET r == Body(o, _state, c)
        l == IF r.save THEN log \cup {n} ELSE log
    IN  /\ _state' = r.state
        /\ res' = [res EXCEPT ![t] =
                     IF o.name = "add_xp" /\ ~_persistence_enabled
                     THEN Returns(ScoreOf(r.state, o.chat_id, o.user_id))
                     ELSE Returns(r.result)]
        /\ log' = l
        /\ before' = [before EXCEPT ![t] = View]
        /\ after' = [after EXCEPT ![t] = r.state]
        /\ IF r.save
           THEN Save(t, r.state, l, w)
           ELSE /\ pc' = [pc EXCEPT ![t] = "idle"]
                /\ waiters' = w
                /\ UNCHANGED <<payload, plog>>
        /\ now' = c
        /\ UNCHANGED <<_lock, _snapshot_signature>>

\* a check that clears the signature of a vanished file and keeps the state
EnsureLockedKeepsState(t, w) ==
    LET signature == _compute_snapshot_signature(primary, inode)
    IN  /\ waiters' = w
        /\ before' = [before EXCEPT ![t] = View]
        /\ after' = [after EXCEPT ![t] = StorageState]
        /\ IF signature = _snapshot_signature
           THEN /\ pc' = [pc EXCEPT ![t] = "idle"]
                /\ res' = [res EXCEPT ![t] = Path("unchanged")]
                /\ UNCHANGED <<_state, _lock, _snapshot_signature, log, synced, extDirty>>
           ELSE IF signature = NoSig
           THEN /\ _state' = _state
                /\ log' = log
                /\ _snapshot_signature' = NoSig
                /\ pc' = [pc EXCEPT ![t] = "idle"]
                /\ res' = [res EXCEPT ![t] = Path("reset")]
                /\ synced' = FALSE
                /\ extDirty' = FALSE
                /\ UNCHANGED _lock
           ELSE /\ _lock' = t
                /\ pc' = [pc EXCEPT ![t] = "l_open"]
                /\ UNCHANGED <<_state, _snapshot_signature, log, res, synced, extDirty>>

\* ensure_latest_snapshot() once it holds the lock
EnsureLocked(t, w) ==
    LET signature == _compute_snapshot_signature(primary, inode)
    IN  /\ waiters' = w
        /\ before' = [before EXCEPT ![t] = View]
        /\ after' = [after EXCEPT ![t] = StorageState]
        /\ IF signature = _snapshot_signature
           THEN /\ pc' = [pc EXCEPT ![t] = "idle"]
                /\ res' = [res EXCEPT ![t] = Path("unchanged")]
                /\ UNCHANGED <<_state, _lock, _snapshot_signature, log, synced, extDirty>>
           ELSE IF signature = NoSig
           THEN /\ _state' = IF _snapshot_signature # NoSig THEN StorageState ELSE _state
                /\ log' = IF _snapshot_signature # NoSig THEN {} ELSE log
                /\ _snapshot_signature' = NoSig
                /\ pc' = [pc EXCEPT ![t] = "idle"]
                /\ res' = [res EXCEPT ![t] = Path("reset")]
                /\ synced' = FALSE
                /\ extDirty' = FALSE
                /\ UNCHANGED _lock
           ELSE /\ _lock' = t
                /\ pc' = [pc EXCEPT ![t] = "l_open"]
                /\ UNCHANGED <<_state, _snapshot_signature, log, res, synced, extDirty>>

\* a call of the API: it runs in the first task that is free
Enter(t, o) ==
    /\ pc[t] = "idle"
    /\ \A u \in Tasks : u < t => pc[u] # "idle"
    /\ ops < budget
    /\ ops' = ops + 1
    /\ op' = [op EXCEPT ![t] = o]
    /\ id' = [id EXCEPT ![t] = ops + 1]
    /\ pre' = [pre EXCEPT ![t] = PrimaryData]
    /\ touched' = [touched EXCEPT ![t] = FALSE]

Queue(t, where) ==
    /\ pc' = [pc EXCEPT ![t] = where]
    /\ waiters' = Append(waiters, t)

Mutate(t, o) ==
    /\ Enter(t, o)
    /\ IF LockFast(waiters)
       THEN \E c \in ClockOf(o) : Locked(t, o, ops + 1, waiters, c)
       ELSE /\ Queue(t, "m_wait")
            /\ Forget(t)
            /\ UNCHANGED <<_state, _lock, _snapshot_signature, res, payload, plog, log, now>>
    /\ UNCHANGED <<fsVars, buf, fails, ext, budget, sideVars, mirrorVars, failed, synced, extDirty>>

\* ------------------------------------------------------- the API operations
\* A coroutine issues its next call when the previous one has returned.
AdminUsernames == {None, "@bob"}
Languages == {None, "en"}
Statuses == {"approved", "denied"}
QuestionLanguages == {None, "fa"}
Prompts == {None, " P "}

AddAdmin(t) ==
    /\ pc[t] = "idle"
    /\ \E u \in {1}, un \in AdminUsernames :
           Mutate(t, [name |-> "add_admin", user_id |-> u, username |-> un, full_name |-> None])

RemoveAdmin(t) ==
    /\ pc[t] = "idle"
    /\ \E u \in {1} : Mutate(t, [name |-> "remove_admin", user_id |-> u])

AddApplication(t) ==
    /\ pc[t] = "idle"
    /\ \E u \in Users, l \in Languages :
           Mutate(t, [name |-> "add_application", user_id |-> u, language_code |-> l])

PopApplication(t) ==
    /\ pc[t] = "idle"
    /\ \E u \in Users : Mutate(t, [name |-> "pop_application", user_id |-> u])

WithdrawApplication(t) ==
    /\ pc[t] = "idle"
    /\ \E u \in Users : Mutate(t, [name |-> "withdraw_application", user_id |-> u])

MarkApplicationStatus(t) ==
    /\ pc[t] = "idle"
    /\ \E u \in Users, st \in Statuses :
           Mutate(t, [name |-> "mark_application_status", user_id |-> u, status |-> st,
                      language_code |-> None])

SetApplicationQuestion(t) ==
    /\ pc[t] = "idle"
    /\ \E pr \in Prompts, l \in QuestionLanguages :
           Mutate(t, [name |-> "set_application_question", question_id |-> "q1",
                      prompt |-> pr, language_code |-> l])

AddXp(t) ==
    /\ pc[t] = "idle"
    /\ \E c \in ChatIds, u \in {1}, a \in {5} :
           Mutate(t, [name |-> "add_xp", chat_id |-> c, user_id |-> u, amount |-> a,
                      username |-> None])

\* /addxp <user> <amount>: the handler passes int(context.args[-1]) on as it is
GrantedAmounts == {-5, 5, 10}

GrantXp(t) ==
    /\ pc[t] = "idle"
    /\ \E c \in ChatIds, u \in Users, a \in GrantedAmounts :
           Mutate(t, [name |-> "add_xp", chat_id |-> c, user_id |-> u, amount |-> a,
                      username |-> None])

\* an admin edits or resets the prompt of a question, for one language or for all
EditedQuestions == {"q1", "q2"}
EditedPrompts == {None, "", " P ", "Q"}

EditQuestion(t) ==
    /\ pc[t] = "idle"
    /\ \E q \in EditedQuestions, pr \in EditedPrompts, l \in QuestionLanguages :
           Mutate(t, [name |-> "set_application_question", question_id |-> q,
                      prompt |-> pr, language_code |-> l])

AddCup(t) ==
    /\ pc[t] = "idle"
    /\ \E c \in ChatIds : Mutate(t, [name |-> "add_cup", chat_id |-> c])

EnsureLatestSnapshot(t) ==
    /\ Enter(t, [name |-> "ensure_latest_snapshot"])
    /\ IF ~_persistence_enabled
       THEN /\ res' = [res EXCEPT ![t] = Path("disabled")]
            /\ before' = [before EXCEPT ![t] = View]
            /\ after' = [after EXCEPT ![t] = StorageState]
            /\ UNCHANGED <<_state, _lock, waiters, _snapshot_signature, pc, log, synced, extDirty>>
       ELSE IF LockFast(waiters)
       THEN EnsureLocked(t, waiters)
       ELSE /\ Queue(t, "e_wait")
            /\ Forget(t)
            /\ UNCHANGED <<_state, _lock, _snapshot_signature, res, log, synced, extDirty>>
    /\ UNCHANGED <<payload, plog, fsVars, buf, now, fails, ext, budget, sideVars, mirrorVars, failed>>

\* a load() that keeps the remembered signature when the file is absent
LoadKeepsSignature(t) ==
    /\ Enter(t, [name |-> "load"])
    /\ before' = [before EXCEPT ![t] = View]
    /\ after' = [after EXCEPT ![t] = StorageState]
    /\ IF ~_persistence_enabled
       THEN /\ res' = [res EXCEPT ![t] = Path("disabled")]
            /\ UNCHANGED <<_state, _snapshot_signature, pc, log, synced>>
       ELSE IF primary = 0
       THEN /\ _state' = StorageState
            /\ _snapshot_signature' = _snapshot_signature
            /\ log' = {}
            /\ res' = [res EXCEPT ![t] = Path("reset")]
            /\ synced' = FALSE
            /\ UNCHANGED pc
       ELSE /\ pc' = [pc EXCEPT ![t] = "l_open"]
            /\ UNCHANGED <<_state, _snapshot_signature, log, res, synced>>
    /\ UNCHANGED <<_lock, waiters, payload, plog, fsVars, buf, now, fails, ext, budget, sideVars, mirrorVars,
                   failed, extDirty>>

\* load() called directly (start-up): it does not take the lock
Load(t) ==
    /\ Enter(t, [name |-> "load"])
    /\ before' = [before EXCEPT ![t] = View]
    /\ after' = [after EXCEPT ![t] = StorageState]
    /\ IF ~_persistence_enabled
       THEN /\ res' = [res EXCEPT ![t] = Path("disabled")]
            /\ UNCHANGED <<_state, _snapshot_signature, pc, log, synced>>
       ELSE IF primary = 0
       THEN /\ _state' = StorageState
            /\ _snapshot_signature' = NoSig
            /\ log' = {}
            /\ res' = [res EXCEPT ![t] = Path("reset")]
            /\ synced' = FALSE
            /\ UNCHANGED pc
       ELSE /\ pc' = [pc EXCEPT ![t] = "l_open"]
            /\ UNCHANGED <<_state, _snapshot_signature, log, res, synced>>
    /\ UNCHANGED <<_lock, waiters, payload, plog, fsVars, buf, now, fails, ext, budget, sideVars, mirrorVars,
                   failed, extDirty>>

\* disable_persistence(), called between two awaited calls
DisablePersistence ==
    /\ \A t \in Tasks : pc[t] = "idle"
    /\ _persistence_enabled
    /\ _persistence_enabled' = FALSE
    /\ _backup_path' = FALSE
    /\ _snapshot_signature' = NoSig
    /\ frozen' = [primary |-> PrimaryData, backup |-> backup]
    /\ UNCHANGED <<_state, _lock, waiters, pc, op, res, payload, fsVars, buf, now, ops, fails,
                   ext, budget, sideVars, backup, flushed, bfailed, replaces, histVars>>

\* ------------------------------------------------- waking up on the lock
Woken(t, where) == pc[t] = where /\ _lock = 0 /\ waiters # <<>> /\ Head(waiters) = t

ResumeMutate(t) ==
    /\ Woken(t, "m_wait")
    /\ \E c \in ClockOf(op[t]) : Locked(t, op[t], id[t], Tail(waiters), c)
    /\ UNCHANGED <<op, fsVars, buf, ops, fails, ext, budget, sideVars, mirrorVars, id, failed, pre, touched,
                   synced, extDirty>>

ResumeSnapshot(t) ==
    /\ Woken(t, "s_wait")
    /\ payload' = [payload EXCEPT ![t] = Bytes(to_dict(_state))]
    /\ plog' = [plog EXCEPT ![t] = log]
    /\ pc' = [pc EXCEPT ![t] = "w_open"]
    /\ waiters' = Tail(waiters)
    /\ UNCHANGED <<_state, _lock, _snapshot_signature, op, res, fsVars, buf, now, ops, fails,
                   ext, budget, sideVars, mirrorVars, id, log, failed, pre, before, after, touched, synced, extDirty>>

ResumeEnsure(t) ==
    /\ Woken(t, "e_wait")
    /\ EnsureLocked(t, Tail(waiters))
    /\ UNCHANGED <<op, payload, plog, fsVars, buf, now, ops, fails, ext, budget, sideVars, mirrorVars, id, failed,
                   pre, touched>>

\* ----------------------------------------------------------------- load()
\* a load() that leaves the lock of the caller held
ReleaseKeepsLock(t) == _lock' = _lock

Release(t) == _lock' = IF _lock = t THEN 0 ELSE _lock

\* aioopen(self._path, "rb")
LoadOpen(t) ==
    /\ pc[t] = "l_open"
    /\ IF primary = 0
       THEN /\ pc' = [pc EXCEPT ![t] = "idle"]
            /\ res' = [res EXCEPT ![t] = Raises]
            /\ Release(t)
            /\ UNCHANGED fsVars
       ELSE /\ pc' = [pc EXCEPT ![t] = "l_read"]
            /\ SetFs(inode, primary, tmp, [fd EXCEPT ![t] = primary])
            /\ UNCHANGED <<res, _lock>>
    /\ UNCHANGED <<_state, waiters, _snapshot_signature, op, payload, buf, now, ops, fails,
                   ext, budget, sideVars, mirrorVars, histVars>>

\* await file.read(), and the file is closed
LoadRead(t) ==
    /\ pc[t] = "l_read"
    /\ buf' = [buf EXCEPT ![t] = inode[fd[t]]]
    /\ SetFs(inode, primary, tmp, [fd EXCEPT ![t] = 0])
    /\ pc' = [pc EXCEPT ![t] = "l_done"]
    /\ UNCHANGED <<engineVars, op, res, payload, now, ops, fails, ext, budget, sideVars, mirrorVars, histVars>>

\* the rest of load(): decode, replace the state, remember the signature
LoadDone(t) ==
    /\ pc[t] = "l_done"
    /\ IF buf[t].data.kind = "full"
       THEN /\ _state' = from_dict(buf[t].data.p)
            /\ _snapshot_signature' = _compute_snapshot_signature(primary, inode)
            /\ log' = buf[t].log
            /\ res' = [res EXCEPT ![t] = Path("loaded")]
            /\ synced' = FALSE
            /\ extDirty' = FALSE
       ELSE IF buf[t].data.kind = "alien"
       THEN /\ res' = [res EXCEPT ![t] = Raises]
            /\ UNCHANGED <<_state, _snapshot_signature, log, synced, extDirty>>
       ELSE /\ res' = [res EXCEPT ![t] = Path("skipped")]
            /\ UNCHANGED <<_state, _snapshot_signature, log, synced, extDirty>>
    /\ buf' = [buf EXCEPT ![t] = FreeInode]
    /\ pc' = [pc EXCEPT ![t] = "idle"]
    /\ Release(t)
    /\ UNCHANGED <<waiters, op, payload, fsVars, now, ops, fails, ext, budget, sideVars, mirrorVars,
                   id, plog, failed, pre, before, after, touched>>

\* ------------------------------------------------------ _write_snapshot()
\* save() called directly
SaveCall(t) ==
    /\ Enter(t, [name |-> "save"])
    /\ Forget(t)
    /\ Save(t, _state, log, waiters)
    /\ res' = [res EXCEPT ![t] = Returns(None)]
    /\ UNCHANGED <<_state, _lock, _snapshot_signature, fsVars, buf, now, fails, ext, budget, sideVars, mirrorVars,
                   log, failed, synced, extDirty>>

Truncated(t) == [data |-> NoBytes, mtime |-> t, log |-> {}]

\* aioopen(tmp_path, "wb"): creates the file or truncates the one that is there
OpenTmp(t) ==
    /\ pc[t] = "w_open"
    /\ \E c \in Clock :
        /\ now' = c
        /\ IF tmp # 0
           THEN SetFs([inode EXCEPT ![tmp] = Truncated(c)], primary, tmp,
                      [fd EXCEPT ![t] = tmp])
           ELSE LET i == Fresh(primary, tmp, fd)
                IN  SetFs([inode EXCEPT ![i] = Truncated(c)], primary, i,
                          [fd EXCEPT ![t] = i])
    /\ pc' = [pc EXCEPT ![t] = "w_write"]
    /\ touched' = Touch(t)
    /\ UNCHANGED <<engineVars, op, res, payload, buf, ops, fails, ext, budget, sideVars, mirrorVars,
                   id, log, plog, failed, pre, before, after, synced, extDirty>>

Written(old, b, l, t) ==
    [data |-> WriteAt0(old.data, b), mtime |-> t,
     log |-> IF WriteAt0(old.data, b).kind = "full" THEN l ELSE {}]

\* file.write(payload), file.flush() and the close at the end of the with block:
\* the bytes reach the file the descriptor refers to, whatever its name is by now
WriteTmp(t) ==
    /\ pc[t] = "w_write"
    /\ \E c \in Clock :
        /\ now' = c
        /\ SetFs([inode EXCEPT ![fd[t]] = Written(@, payload[t], plog[t], c)],
                 primary, tmp, [fd EXCEPT ![t] = 0])
    /\ pc' = [pc EXCEPT ![t] = "w_replace"]
    /\ touched' = Touch(t)
    /\ synced' = IF fd[t] = primary THEN FALSE ELSE synced
    /\ UNCHANGED <<engineVars, op, res, payload, buf, ops, fails, ext, budget, sideVars, mirrorVars,
                   id, log, plog, failed, pre, before, after, extDirty>>

\* os.replace(tmp_path, self._path) in a worker thread
ReplaceTmp(t) ==
    /\ pc[t] = "w_replace"
    /\ IF tmp = 0
       THEN /\ pc' = [pc EXCEPT ![t] = "w_cleanup"]
            /\ UNCHANGED <<fsVars, synced, extDirty, flushed, replaces>>
       ELSE /\ pc' = [pc EXCEPT ![t] = "w_done"]
            /\ replaces' = Append(replaces, id[t])
            /\ SetFs(inode, tmp, 0, fd)
            /\ synced' = FALSE
            /\ extDirty' = FALSE
            /\ flushed' = IF _backup_path THEN Put(flushed, id[t], payload[t].p) ELSE flushed
    /\ touched' = Touch(t)
    /\ UNCHANGED <<engineVars, op, res, payload, buf, now, ops, fails, ext, budget, sideVars,
                   _backup_path, backup, bfailed, _persistence_enabled, frozen,
                   id, log, plog, failed, pre, before, after>>

\* injected I/O errors: the open fails, the write stops after a prefix of the
\* payload, the rename fails
Fault(t) ==
    /\ fails < MaxFail
    /\ fails' = fails + 1
    /\ pc' = [pc EXCEPT ![t] = "w_cleanup"]
    /\ touched' = Touch(t)
    /\ UNCHANGED <<engineVars, op, res, payload, buf, ops, ext, budget, sideVars, mirrorVars,
                   id, log, plog, failed, pre, before, after, extDirty>>

OpenTmpFails(t) ==
    /\ pc[t] = "w_open"
    /\ Fault(t)
    /\ UNCHANGED <<fsVars, synced, now>>

WriteTmpFails(t) ==
    /\ pc[t] = "w_write"
    /\ Fault(t)
    /\ \E c \in Clock :
        /\ now' = c
        /\ SetFs([inode EXCEPT ![fd[t]] = Written(@, Prefix(payload[t]), {}, c)],
                 primary, tmp, [fd EXCEPT ![t] = 0])
    /\ synced' = IF fd[t] = primary THEN FALSE ELSE synced

ReplaceTmpFails(t) ==
    /\ pc[t] = "w_replace"
    /\ Fault(t)
    /\ UNCHANGED <<fsVars, synced, now>>

\* a handler that re-raises without unlinking the temporary file
CleanupLeavesTmp(t) ==
    /\ pc[t] = "w_cleanup"
    /\ UNCHANGED fsVars
    /\ pc' = [pc EXCEPT ![t] = "idle"]
    /\ res' = [res EXCEPT ![t] = Raises]
    /\ payload' = [payload EXCEPT ![t] = NoBytes]
    /\ failed' = failed \cup {id[t]}
    /\ touched' = Touch(t)
    /\ UNCHANGED <<engineVars, op, buf, now, ops, fails, ext, budget, sideVars, mirrorVars,
                   id, log, plog, pre, before, after, synced, extDirty>>

\* a handler that unlinks the temporary file and swallows the exception
CleanupSwallows(t) ==
    /\ pc[t] = "w_cleanup"
    /\ SetFs(inode, primary, 0, fd)
    /\ pc' = [pc EXCEPT ![t] = "idle"]
    /\ payload' = [payload EXCEPT ![t] = NoBytes]
    /\ failed' = failed \cup {id[t]}
    /\ touched' = Touch(t)
    /\ UNCHANGED <<engineVars, op, res, buf, now, ops, fails, ext, budget, sideVars, mirrorVars,
                   id, log, plog, pre, before, after, synced, extDirty>>

\* except Exception: unlink the temporary file if it is there, re-raise
Cleanup(t) ==
    /\ pc[t] = "w_cleanup"
    /\ SetFs(inode, primary, 0, fd)
    /\ pc' = [pc EXCEPT ![t] = "idle"]
    /\ res' = [res EXCEPT ![t] = Raises]
    /\ payload' = [payload EXCEPT ![t] = NoBytes]
    /\ failed' = failed \cup {id[t]}
    /\ touched' = Touch(t)
    /\ UNCHANGED <<engineVars, op, buf, now, ops, fails, ext, budget, sideVars, mirrorVars,
                   id, log, plog, pre, before, after, synced, extDirty>>

\* what add_xp returns after save(): self._state.xp[chat_key][user_key]
Returned(t) ==
    IF op[t].name = "add_xp"
    THEN LET scores == Get(_state.xp, Str(op[t].chat_id), <<>>)
         IN  IF Str(op[t].user_id) \in OKeys(scores)
             THEN Returns(OGet(scores, Str(op[t].user_id), 0)) ELSE Raises
    ELSE res[t]

\* ------------------------------------------------------ the backup mirror
\* where save() is once it is past `if self._backup_path:` and its try block
PastBackup == IF _backup_path THEN "b_done" ELSE "w_done"

\* a mirror dumped from the live state
WriteBackupFromState(t) ==
    /\ pc[t] = "w_done"
    /\ _backup_path
    /\ backup' = Mirror(Bytes(to_dict(_state)), id[t])
    /\ pc' = [pc EXCEPT ![t] = "b_done"]
    /\ UNCHANGED <<engineVars, op, res, payload, fsVars, buf, now, ops, fails, ext, budget, sideVars,
                   _backup_path, flushed, bfailed, _persistence_enabled, frozen, replaces, histVars>>

\* _write_sqlite_backup(payload) in a worker thread: the tables are dropped and
\* rebuilt from the decoded payload
WriteBackup(t) ==
    /\ pc[t] = "w_done"
    /\ _backup_path
    /\ backup' = Mirror(payload[t], id[t])
    /\ pc' = [pc EXCEPT ![t] = "b_done"]
    /\ UNCHANGED <<engineVars, op, res, payload, fsVars, buf, now, ops, fails, ext, budget, sideVars,
                   _backup_path, flushed, bfailed, _persistence_enabled, frozen, replaces, histVars>>

\* a dump whose exception leaves save()
WriteBackupRaises(t) ==
    /\ pc[t] = "w_done"
    /\ _backup_path
    /\ fails < MaxFail
    /\ fails' = fails + 1
    /\ backup' \in {backup, BrokenMirror(id[t])}
    /\ bfailed' = bfailed \cup {id[t]}
    /\ pc' = [pc EXCEPT ![t] = "idle"]
    /\ res' = [res EXCEPT ![t] = Raises]
    /\ payload' = [payload EXCEPT ![t] = NoBytes]
    /\ UNCHANGED <<engineVars, op, fsVars, buf, now, ops, ext, budget, sideVars,
                   _backup_path, flushed, _persistence_enabled, frozen, replaces, histVars>>

\* the dump fails (sqlite3 error, unwritable path) before or after it dropped
\* the tables; `except Exception` logs it
WriteBackupFails(t) ==
    /\ pc[t] = "w_done"
    /\ _backup_path
    /\ fails < MaxFail
    /\ fails' = fails + 1
    /\ backup' \in {backup, BrokenMirror(id[t])}
    /\ bfailed' = bfailed \cup {id[t]}
    /\ pc' = [pc EXCEPT ![t] = "b_done"]
    /\ UNCHANGED <<engineVars, op, res, payload, fsVars, buf, now, ops, ext, budget, sideVars,
                   _backup_path, flushed, _persistence_enabled, frozen, replaces, histVars>>

\* a save() that does not refresh the signature
FinishSaveKeepsSignature(t) ==
    /\ pc[t] = PastBackup
    /\ pc' = [pc EXCEPT ![t] = "idle"]
    /\ res' = [res EXCEPT ![t] = Returned(t)]
    /\ payload' = [payload EXCEPT ![t] = NoBytes]
    /\ synced' = TRUE
    /\ UNCHANGED <<_state, _lock, waiters, _snapshot_signature, op, fsVars, buf, now, ops,
                   fails, ext, budget, sideVars, mirrorVars, id, log, plog, failed, pre, before, after, touched, extDirty>>

\* the end of save(): the signature is refreshed, the operation returns
FinishSave(t) ==
    /\ pc[t] = PastBackup
    /\ _snapshot_signature' = _compute_snapshot_signature(primary, inode)
    /\ pc' = [pc EXCEPT ![t] = "idle"]
    /\ res' = [res EXCEPT ![t] = Returned(t)]
    /\ payload' = [payload EXCEPT ![t] = NoBytes]
    /\ synced' = TRUE
    /\ UNCHANGED <<_state, _lock, waiters, op, fsVars, buf, now, ops, fails, ext, budget, sideVars, mirrorVars,
                   id, log, plog, failed, pre, before, after, touched, extDirty>>

\* ------------------------------------------------------------- environment
\* payloads another process may have written: an admin list, and a snapshot
\* of an older version that stored ISO timestamps
ExternalPayloads ==
    {to_dict([StorageState EXCEPT !.admins = <<2>>]),
     to_dict([StorageState EXCEPT
                !.applications = (1 :> Application(1, "User", None, "Answer", Iso(0), None, <<>>)),
                !.application_history = (1 :> ApplicationHistoryEntry("pending", Iso(0), None, None))])}

ExternalRewrite ==
    /\ ext < MaxExt
    /\ ext' = ext + 1
    /\ \E p \in ExternalPayloads, c \in Clock :
         LET i == Fresh(primary, tmp, fd)
         IN  /\ now' = c
             /\ SetFs([inode EXCEPT ![i] = [data |-> Bytes(p), mtime |-> c, log |-> {}]],
                       i, tmp, fd)
    /\ touched' = Touch(0)
    /\ synced' = FALSE
    /\ extDirty' = TRUE
    /\ UNCHANGED <<engineVars, pc, op, res, payload, buf, ops, fails, budget, sideVars, mirrorVars,
                   id, log, plog, failed, pre, before, after>>

ExternalDelete ==
    /\ ext < MaxExt
    /\ primary # 0
    /\ ext' = ext + 1
    /\ SetFs(inode, 0, tmp, fd)
    /\ touched' = Touch(0)
    /\ synced' = FALSE
    /\ extDirty' = FALSE
    /\ UNCHANGED <<engineVars, pc, op, res, payload, buf, now, ops, fails, budget, sideVars, mirrorVars,
                   id, log, plog, failed, pre, before, after>>

\* contents a crash or another program may leave at the primary path: nothing,
\* a truncated document, a JSON document that is not a snapshot object
DamagedContents == {NoBytes, Garbled(1), Alien}

ExternalDamage ==
    /\ ext < MaxExt
    /\ ext' = ext + 1
    /\ \E d \in DamagedContents, c \in Clock :
         LET i == Fresh(primary, tmp, fd)
         IN  /\ now' = c
             /\ SetFs([inode EXCEPT ![i] = [data |-> d, mtime |-> c, log |-> {}]],
                       i, tmp, fd)
    /\ touched' = Touch(0)
    /\ synced' = FALSE
    /\ extDirty' = FALSE
    /\ UNCHANGED <<engineVars, pc, op, res, payload, buf, ops, fails, budget, sideVars, mirrorVars,
                   id, log, plog, failed, pre, before, after>>

\* ------------------------------------------------------------ specification
\* a step of task t: a call of the API or the next step of the call it is in
Call(t) ==
    \/ AddAdmin(t)
    \/ RemoveAdmin(t)
    \/ AddApplication(t)
    \/ PopApplication(t)
    \/ WithdrawApplication(t)
    \/ MarkApplicationStatus(t)
    \/ SetApplicationQuestion(t)
    \/ AddXp(t)
    \/ AddCup(t)
    \/ SaveCall(t)
    \/ EnsureLatestSnapshot(t)
    \/ Load(t)

Step(t) ==
    \/ LoadOpen(t)
    \/ LoadRead(t)
    \/ LoadDone(t)
    \/ OpenTmp(t)
    \/ WriteTmp(t)
    \/ ReplaceTmp(t)
    \/ Cleanup(t)
    \/ FinishSave(t)

\* the engine alone: concurrent calls on one event loop, a file system that
\* does not fail, no other process
Next ==
    \/ \E t \in Tasks :
        \/ Call(t)
        \/ Step(t)
        \/ ResumeMutate(t)
        \/ ResumeSnapshot(t)
        \/ ResumeEnsure(t)

Spec == Init /\ [][Next]_vars

\* calls awaited one after another, on a file system that may fail and beside
\* another process that rewrites or deletes the primary file
NextSeq ==
    \/ Call(1)
    \/ Step(1)
    \/ OpenTmpFails(1)
    \/ WriteTmpFails(1)
    \/ ReplaceTmpFails(1)
    \/ ExternalRewrite
    \/ ExternalDelete
    \/ ExternalDamage

SeqSpec == Init /\ [][NextSeq]_vars

\* Storage(path, backup_path=...) or Storage(path): concurrent admin and save()
\* calls on a file system where one operation may fail
NextBackup ==
    \/ \E t \in Tasks :
        \/ AddAdmin(t)
        \/ RemoveAdmin(t)
        \/ SaveCall(t)
        \/ OpenTmp(t)
        \/ WriteTmp(t)
        \/ ReplaceTmp(t)
        \/ Cleanup(t)
        \/ WriteBackup(t)
        \/ WriteBackupFails(t)
        \/ FinishSave(t)
        \/ OpenTmpFails(t)
        \/ WriteTmpFails(t)
        \/ ReplaceTmpFails(t)

BackupSpec == (\E b \in BOOLEAN : Constructed(b)) /\ [][NextBackup]_vars

\* calls awaited one after another by a process that may switch persistence
\* off between two of them; nothing fails and no other process runs
NextEphemeral ==
    \/ Call(1)
    \/ LoadOpen(1)
    \/ LoadRead(1)
    \/ LoadDone(1)
    \/ OpenTmp(1)
    \/ WriteTmp(1)
    \/ ReplaceTmp(1)
    \/ WriteBackup(1)
    \/ FinishSave(1)
    \/ DisablePersistence

EphemeralSpec == (\E b \in BOOLEAN : Constructed(b)) /\ [][NextEphemeral]_vars

\* one caller that grants XP, edits question prompts and records cups, each
\* call awaited before the next; the accessors read the state between calls
MaxReadOps == 3

NextRead ==
    \/ GrantXp(1)
    \/ EditQuestion(1)
    \/ AddCup(1)
    \/ OpenTmp(1)
    \/ WriteTmp(1)
    \/ ReplaceTmp(1)
    \/ FinishSave(1)

ReadSpec == Built(FALSE, MaxReadOps) /\ [][NextRead]_vars

\* ------------------------------------------------------------- properties
\* what a step did, read off the state before and after it
Entered(t) == pc[t] = "idle" /\ id'[t] # id[t]

\* the locked body of a mutating operation ran for task t
BodyRan(t) ==
    /\ op'[t].name \in Mutators
    /\ pc'[t] # "m_wait"
    /\ Entered(t) \/ pc[t] = "m_wait"

\* _snapshot() ran for task t
SnapshotRan(t) == payload[t] = NoBytes /\ payload'[t] # NoBytes

\* the locked check of ensure_latest_snapshot() ran for task t
EnsureRan(t) ==
    /\ op'[t].name = "ensure_latest_snapshot"
    /\ pc'[t] # "e_wait"
    /\ Entered(t) \/ pc[t] = "e_wait"

Reloading(t) == pc[t] \in {"l_open", "l_read", "l_done"} /\ op[t].name = "ensure_latest_snapshot"

AppsHaveHistory(s) == DOMAIN s.applications \subseteq DOMAIN s.application_history

\* the body of task t's call changed the state and called save(), whether or
\* not save() then raised
Changed(t) ==
    \/ res[t].status = "raised"
    \/ res[t].status = "returned" /\ res[t].value = TRUE

\* C1: when save() has failed in the open, in the write (after a prefix of the
\* payload reached the temporary file) or in the rename, and nothing else has
\* used the files since the call began, the primary file holds what it held
\* when the call began, the temporary file is gone and the caller got the
\* exception.
C1_FailedSaveLeavesPrimary ==
    \A t \in Tasks :
        pc[t] = "idle" /\ id[t] \in failed /\ ~touched[t] =>
            /\ PrimaryData = pre[t]
            /\ tmp = 0
            /\ res[t].status = "raised"

\* a mutating operation failed over a primary file written by an earlier save
C1_Witness ==
    \E t \in Tasks :
        /\ pc[t] = "idle" /\ res[t].status = "raised" /\ ~touched[t]
        /\ op[t].name \in Mutators
        /\ id[t] \in failed
        /\ ext = 0 /\ pre[t].kind = "full" /\ pre[t] # PreviousRun.data
        /\ PrimaryData = pre[t]
        /\ tmp = 0

\* C2: the primary path, when it exists, always holds a complete snapshot,
\* whatever the interleaving of the save() calls of one engine.
C2_PrimaryAlwaysComplete == primary # 0 => inode[primary].data.kind = "full"

\* C3: when a mutating operation that changed the state returns from save()
\* without an error, the primary file holds a complete snapshot that includes
\* its change.
C3_ReturnedChangeIsOnDisk ==
    [][\A t \in Tasks :
        FinishSave(t) /\ op[t].name \in Mutators /\ res'[t].status # "raised" =>
            /\ PrimaryData'.kind = "full"
            /\ id[t] \in PrimaryLog']_vars

\* C4: once every operation of a burst of mutating operations has returned and
\* none raised, the primary file holds every mutation that is in memory.
C4_BurstIsOnDisk ==
    (/\ \A t \in Tasks : pc[t] = "idle" /\ op[t].name \in Mutators \cup {"none"}
                         /\ res[t].status # "raised"
     /\ failed = {}
     /\ log # {})
    => /\ PrimaryData.kind = "full"
       /\ log \subseteq PrimaryLog

\* C5: a locked body, a _snapshot() and the check of ensure_latest_snapshot()
\* run only while no task holds the lock; the reload of ensure_latest_snapshot()
\* runs only in the holder; and neither the state, nor a snapshot, nor the bytes
\* a reload read ever shows an application without its history entry.
C5_LockedSectionsExclusive ==
    [][/\ \A t \in Tasks : BodyRan(t) \/ SnapshotRan(t) \/ EnsureRan(t) => _lock = 0
       /\ \A t \in Tasks : Reloading(t)' => _lock' = t
       /\ _lock' # 0 => Reloading(_lock)'
       /\ AppsHaveHistory(_state')
       /\ \A t \in Tasks :
            /\ payload'[t].kind = "full" => AppsHaveHistory(from_dict(payload'[t].p))
            /\ buf'[t].data.kind = "full" => AppsHaveHistory(from_dict(buf'[t].data.p))]_vars

\* add_application ran after waiting for the lock that a reload was holding
C5_Witness ==
    \E t \in Tasks :
        /\ op[t].name = "add_application"
        /\ pc[t] \notin {"idle", "m_wait"}
        /\ res[t].status = "returned" /\ res[t].value = TRUE
        /\ \E u \in Tasks \ {t} : op[u].name = "ensure_latest_snapshot" /\ res[u].status = "loaded"
                                  /\ id[u] < id[t]
        /\ 1 \in Range(_state.admins)

\* C6: the body of add_application(u) inserts the application and succeeds
\* exactly when, in the state it found, u had no live application and u's
\* history entry was not "approved"; otherwise it returns False and leaves the
\* state as it found it.
C6_AddApplicationGuard ==
    \A t \in Tasks :
        op[t].name = "add_application" /\ before[t].ran =>
            LET u == op[t].user_id
                found == before[t].state
                free == /\ u \notin DOMAIN found.applications
                        /\ Get(found.application_history, u, [status |-> ""]).status
                             # "approved"
            IN  /\ res[t].status = "returned" => res[t].value = free
                /\ res[t].status = "raised" => free
                /\ free => /\ u \in DOMAIN after[t].applications
                           /\ after[t].applications[u].user_id = u
                /\ ~free => after[t] = found

\* add_application was refused for a user whose history entry is "approved"
C6_Witness ==
    \E t \in Tasks :
        /\ pc[t] = "idle" /\ op[t].name = "add_application" /\ before[t].ran
        /\ res[t].status = "returned" /\ res[t].value = FALSE
        /\ op[t].user_id \notin DOMAIN _state.applications
        /\ Get(_state.application_history, op[t].user_id, [status |-> ""]).status = "approved"

C8_FailedSaveKeepsMutation ==
    \A t \in Tasks :
        /\ pc[t] = "idle" /\ id[t] \in failed /\ op[t].name \in Mutators =>
            /\ res[t].status = "raised"
            /\ before[t].ran
            /\ _state = after[t]
            /\ id[t] \in log
        /\ (/\ pc[t] = "idle" /\ id[t] \notin failed /\ ~touched[t]
            /\ res[t].status = "returned"
            /\ op[t].name = "save" \/ (op[t].name \in Mutators /\ id[t] \in log)) =>
            /\ PrimaryData = Bytes(to_dict(_state))
            /\ (failed \cap log) \subseteq PrimaryLog

\* a mutation whose save failed reached the primary file with a later save
C8_Witness ==
    \E t \in Tasks :
        /\ pc[t] = "idle" /\ res[t].status = "returned" /\ ~touched[t]
        /\ op[t].name \in Mutators \cup {"save"}
        /\ \E k \in failed : k \in log /\ k \in PrimaryLog /\ k # id[t]
        /\ PrimaryData = Bytes(to_dict(_state))

\* C9: when ensure_latest_snapshot() runs after a save() has returned and the
\* primary file has not changed since, it returns at once, leaving the state
\* and the signature as it found them, without reloading.
C9_EnsureAfterSaveIsNoOp ==
    \A t \in Tasks :
        op[t].name = "ensure_latest_snapshot" /\ before[t].ran /\ before[t].synced =>
            /\ pc[t] = "idle"
            /\ res[t].status = "unchanged"
            /\ _state = before[t].state
            /\ _snapshot_signature = before[t].sig

\* ensure_latest_snapshot() returned right after a save() that wrote a mutation
C9_Witness ==
    \E t \in Tasks :
        /\ pc[t] = "idle" /\ op[t].name = "ensure_latest_snapshot"
        /\ before[t].ran /\ before[t].synced
        /\ res[t].status = "unchanged"
        /\ synced /\ primary # 0 /\ log # {} /\ PrimaryLog = log

\* C10: when another process has rewritten the primary file with a valid
\* payload, ensure_latest_snapshot() reloads it: the state becomes the decoded
\* file and the signature the file's signature.
C10_ExternalRewriteIsReloaded ==
    [][\A t \in Tasks :
        /\ EnsureRan(t) /\ extDirty => pc'[t] = "l_open"
        /\ LoadDone(t) /\ op[t].name = "ensure_latest_snapshot" /\ extDirty /\ ~touched[t] =>
            /\ _state' = from_dict(PrimaryData.p)
            /\ _snapshot_signature' = _compute_snapshot_signature(primary, inode)]_vars

\* C11: when ensure_latest_snapshot() finds no primary file, it empties the
\* state and clears the signature if a signature was remembered, and changes
\* nothing if none was.
C11_EnsureAfterDelete ==
    \A t \in Tasks :
        (/\ pc[t] = "idle" /\ op[t].name = "ensure_latest_snapshot" /\ before[t].ran
         /\ ~touched[t] /\ primary = 0) =>
            /\ _snapshot_signature = NoSig
            /\ before[t].sig # NoSig => res[t].status = "reset" /\ _state = StorageState
            /\ before[t].sig = NoSig =>
                  res[t].status = "unchanged" /\ _state = before[t].state

\* ensure_latest_snapshot() emptied a loaded state after the file was deleted
C11_Witness ==
    \E t \in Tasks :
        /\ pc[t] = "idle" /\ op[t].name = "ensure_latest_snapshot" /\ before[t].ran
        /\ ~touched[t] /\ primary = 0 /\ ext = 1
        /\ before[t].sig # NoSig /\ before[t].state # StorageState
        /\ res[t].status = "reset" /\ _state = StorageState

\* C12: when load() has read a primary file that is empty, undecodable or not
\* a snapshot, it returns without an exception and leaves the state and the
\* signature as they were.
C12_LoadNeverRaisesOnDamage ==
    [][\A t \in Tasks :
        LoadDone(t) /\ buf[t].data.kind # "full" =>
            /\ res'[t].status # "raised"
            /\ UNCHANGED <<_state, _snapshot_signature>>]_vars

\* C13: a load() that finds no primary file empties the state and clears the
\* signature at once, and no primary file exists after it.
C13_LoadOfAbsentFile ==
    \A t \in Tasks :
        op[t].name = "load" /\ pre[t].kind = "absent" =>
            /\ pc[t] = "idle"
            /\ res[t].status = "reset"
            /\ _state = StorageState
            /\ _snapshot_signature = NoSig
            /\ ~touched[t] => primary = 0

\* load() emptied a loaded state whose file had been deleted
C13_Witness ==
    \E t \in Tasks :
        /\ pc[t] = "idle" /\ op[t].name = "load" /\ pre[t].kind = "absent"
        /\ before[t].state # StorageState /\ before[t].sig # NoSig
        /\ _state = StorageState /\ _snapshot_signature = NoSig /\ primary = 0

\* C14: when the dump of the backup mirror has failed inside a save(), the call
\* returns without an exception, and, nothing else having used the files, the
\* primary file holds the payload that save() wrote and the remembered
\* signature is the signature of that file.
C14_BackupFailureIsSwallowed ==
    \A t \in Tasks :
        pc[t] = "idle" /\ id[t] \in bfailed =>
            /\ res[t].status = "returned"
            /\ id[t] \notin failed
            /\ id[t] \in DOMAIN flushed
            /\ ~touched[t] =>
                /\ PrimaryData = Bytes(flushed[id[t]])
                /\ _snapshot_signature = _compute_snapshot_signature(primary, inode)

\* add_admin returned True although the dump broke the mirror half-way
C14_Witness ==
    \E t \in Tasks :
        /\ pc[t] = "idle" /\ id[t] \in bfailed /\ ~touched[t]
        /\ op[t].name = "add_admin"
        /\ res[t].status = "returned" /\ res[t].value = TRUE
        /\ backup = BrokenMirror(id[t])
        /\ PrimaryData = Bytes(to_dict(_state))
        /\ _snapshot_signature # NoSig

\* C15: the mirror is written only by an engine with a backup path, only by a
\* save() whose rename succeeded, never by one whose primary write failed, and
\* a complete mirror is the dump of the payload that save() wrote.
C15_BackupFollowsPrimary ==
    /\ backup.kind # "none" =>
        /\ _backup_path
        /\ backup.by \in DOMAIN flushed
        /\ backup.by \notin failed
    /\ backup.kind = "full" => backup.p = flushed[backup.by]
    /\ \A t \in Tasks :
        pc[t] \in {"w_open", "w_write", "w_replace", "w_cleanup"} => backup.by # id[t]

\* the mirror still holds the payload of an earlier save() after the state
\* moved on in a call whose primary write failed
C15_Witness ==
    /\ backup.kind = "full"
    /\ backup.p # to_dict(_state)
    /\ failed # {}
    /\ \A t \in Tasks : pc[t] = "idle"

\* C16: decoding the serialization of the state gives the state back, field
\* for field, in every state the operations of the API produce.
C16_RoundTrip == from_dict(to_dict(_state)) = _state

\* the operations that report "did nothing" by their return value
Refusing == {"add_admin", "remove_admin", "add_application", "withdraw_application",
             "set_application_question", "pop_application"}

\* task t's call returned False (None for pop_application)
Refused(t) ==
    /\ op[t].name \in Refusing
    /\ before[t].ran
    /\ res[t].status = "returned"
    /\ IF op[t].name = "pop_application" THEN res[t].value = None ELSE res[t].value = FALSE

\* C17: a call of add_admin, remove_admin, add_application,
\* withdraw_application or set_application_question that returned False, or of
\* pop_application that returned None, left the state as its body found it
\* and called no save().
C17_RefusalChangesNothing ==
    \A t \in Tasks :
        Refused(t) =>
            /\ pc[t] = "idle"
            /\ after[t] = before[t].state
            /\ id[t] \notin log

\* the username an add_admin call would store, None when it brings none
NewUsername(o) == NormalizeUsername(o.username)

\* C18: add_admin(u) that succeeded left u an admin; add_admin(u) for an admin,
\* bringing no username or full name the profile does not have already,
\* returns False, changes nothing and saves nothing; remove_admin(u) succeeds
\* exactly when u is an admin and leaves u no admin.
C18_AdminAddIsIdempotent ==
    \A t \in Tasks :
        LET o == op[t]
            found == before[t].state
        IN  /\ o.name = "add_admin" /\ before[t].ran =>
                /\ Changed(t) => o.user_id \in Range(after[t].admins)
                /\ (/\ o.user_id \in Range(found.admins)
                    /\ \/ ~Truthy(NewUsername(o))
                       \/ Get(Get(found.admin_profiles, o.user_id, EmptyMap),
                              "username", None) = NewUsername(o)
                    /\ ~Truthy(NormalizeFullName(o.full_name))) =>
                        /\ Refused(t)
                        /\ after[t] = found
                        /\ id[t] \notin log
            /\ o.name = "remove_admin" /\ before[t].ran =>
                /\ o.user_id \in Range(found.admins) =>
                        Changed(t) /\ o.user_id \notin Range(after[t].admins)
                /\ o.user_id \notin Range(found.admins) =>
                        Refused(t) /\ after[t] = found /\ id[t] \notin log

\* a second add_admin of the same user was refused
C18_Witness ==
    \E t \in Tasks :
        /\ pc[t] = "idle" /\ op[t].name = "add_admin" /\ Refused(t)
        /\ op[t].user_id \in Range(_state.admins)
        /\ \E k \in log : k < id[t]
        /\ id[t] \notin log

\* C19: the admin list never holds a user id twice, and an add_admin for a
\* user who is an admin already leaves the list as it was, also when it
\* enriches the profile.
C19_AdminIdsUnique ==
    /\ Cardinality(Range(_state.admins)) = Len(_state.admins)
    /\ \A t \in Tasks :
        (/\ op[t].name = "add_admin" /\ before[t].ran
         /\ op[t].user_id \in Range(before[t].state.admins)) =>
            after[t].admins = before[t].state.admins

\* add_admin stored a username for a user who was an admin already
C19_Witness ==
    \E t \in Tasks :
        /\ op[t].name = "add_admin" /\ before[t].ran
        /\ op[t].user_id \in Range(before[t].state.admins)
        /\ Changed(t)
        /\ after[t].admin_profiles # before[t].state.admin_profiles
        /\ after[t].admins = before[t].state.admins

\* C20: add_xp(chat, user, amount) returns the score its body found for
\* (chat, user) plus amount, whatever other calls run beside it.
C20_AddXpReturnsOwnScore ==
    \A t \in Tasks :
        (/\ pc[t] = "idle" /\ op[t].name = "add_xp" /\ before[t].ran
         /\ res[t].status = "returned") =>
            res[t].value
                = OGet(Get(before[t].state.xp, Str(op[t].chat_id), <<>>),
                       Str(op[t].user_id), 0) + op[t].amount

C22_ScoresNotNegative ==
    \A c \in DOMAIN _state.xp : \A i \in DOMAIN _state.xp[c] :
        _state.xp[c][i][2] \in Nat

\* the languages the prompts are asked for: none, two stored ones and one for
\* which nothing was ever stored
AskedLanguages == {None, "fa", "FA", "en"}

\* the bucket of state s for a language code, empty when it has none
BucketOf(s, language_code) ==
    Get(s.application_questions, _normalise_language_key(language_code), EmptyMap)

\* C23: get_application_questions(lang) returns, for each question, the prompt
\* of lang's own bucket when that bucket has one, otherwise the prompt of the
\* default bucket when that has one, otherwise nothing: an override of the
\* default bucket is returned for every language that has none of its own, and
\* an override stored for one language only is not returned for another.
C23_QuestionsOverlay ==
    \A l \in AskedLanguages, q \in EditedQuestions :
        LET got == get_application_questions(_state, l)
            own == BucketOf(_state, l)
            default == BucketOf(_state, None)
        IN  /\ DOMAIN got \subseteq EditedQuestions
            /\ IF q \in DOMAIN own THEN q \in DOMAIN got /\ got[q] = own[q]
               ELSE IF q \in DOMAIN default THEN q \in DOMAIN got /\ got[q] = default[q]
               ELSE q \notin DOMAIN got
            /\ \A other \in AskedLanguages :
                   (/\ q \in DOMAIN BucketOf(_state, other)
                    /\ q \notin DOMAIN own /\ q \notin DOMAIN default) => q \notin DOMAIN got

\* the default bucket and the bucket of "fa" hold different prompts for one
\* question, and the prompts asked for "fa" and for "en" differ accordingly
C23_Witness ==
    \E q \in EditedQuestions :
        /\ pc[1] = "idle"
        /\ q \in DOMAIN BucketOf(_state, None) /\ q \in DOMAIN BucketOf(_state, "fa")
        /\ BucketOf(_state, None)[q] # BucketOf(_state, "fa")[q]
        /\ get_application_questions(_state, "FA")[q] = BucketOf(_state, "fa")[q]
        /\ get_application_questions(_state, "en")[q] = BucketOf(_state, None)[q]

\* C24: set_application_question(q, prompt, lang) with an empty or absent
\* prompt and q in lang's bucket takes q out of the bucket, takes the bucket out
\* of the mapping when q was its last entry, returns True and has flushed the
\* state it left; with a prompt that is not empty it returns False and flushes
\* nothing when the bucket holds the trimmed prompt for q already, and otherwise
\* stores the trimmed prompt, returns True and has flushed.
C24_SetQuestion ==
    \A t \in Tasks :
        (/\ pc[t] = "idle" /\ op[t].name = "set_application_question" /\ before[t].ran
         /\ res[t].status = "returned") =>
            LET q == op[t].question_id
                trimmed == Strip(IF op[t].prompt = None THEN "" ELSE op[t].prompt)
                key == _normalise_language_key(op[t].language_code)
                found == BucketOf(before[t].state, op[t].language_code)
                left == after[t].application_questions
                flushed_now == id[t] \in log /\ PrimaryData = Bytes(to_dict(after[t]))
                untouched == id[t] \notin log /\ PrimaryData = pre[t]
            IN  IF trimmed = ""
                THEN (q \in DOMAIN found) =>
                        /\ res[t].value = TRUE
                        /\ flushed_now
                        /\ IF DOMAIN found = {q}
                           THEN key \notin DOMAIN left
                           ELSE key \in DOMAIN left /\ left[key] = Remove(found, q)
                ELSE IF q \in DOMAIN found /\ found[q] = trimmed
                THEN res[t].value = FALSE /\ untouched
                ELSE /\ res[t].value = TRUE
                     /\ flushed_now
                     /\ left[key] = Put(found, q, trimmed)

\* an absent prompt took one of two questions out of a bucket, and a prompt
\* given with blanks around it had been stored trimmed
C24_Witness ==
    \E t \in Tasks :
        /\ pc[t] = "idle" /\ op[t].name = "set_application_question" /\ before[t].ran
        /\ op[t].prompt = None
        /\ DOMAIN BucketOf(before[t].state, op[t].language_code) = EditedQuestions
        /\ DOMAIN BucketOf(after[t], op[t].language_code) = EditedQuestions \ {op[t].question_id}
        /\ "P" \in Range(BucketOf(before[t].state, op[t].language_code))
        /\ res[t] = Returns(TRUE)

\* the limits the accessors are asked with
Limits == 0..3

\* the cups of state s for a chat, in the order they were recorded
CupsOf(s, chat_id) == Get(s.cups, Str(chat_id), <<>>)

C26_DisabledTouchesNoFile ==
    ~_persistence_enabled =>
        /\ PrimaryData = frozen.primary
        /\ backup = frozen.backup
        /\ tmp = 0
        /\ ~_backup_path /\ _snapshot_signature = NoSig
        /\ \A t \in Tasks :
               /\ pc[t] = "idle"
               /\ res[t].status = "disabled" => _state = before[t].state
               /\ (op[t].name = "save" /\ id[t] \notin Range(replaces)) => PrimaryData = pre[t]
               /\ (op[t].name \in Mutators /\ before[t].ran) =>
                      /\ _state = after[t]
                      /\ (op[t].name = "add_admin" /\ res[t] = Returns(TRUE)) =>
                             op[t].user_id \in Range(_state.admins)
                      /\ id[t] \notin Range(replaces) =>
                             after[t] = Body(op[t], before[t].state, now).state

\* with persistence switched off, add_admin returned True for a user who is an
\* admin in memory only: the primary file left by the calls before is as it was
C26_Witness ==
    \E t \in Tasks :
        /\ ~_persistence_enabled
        /\ op[t].name = "add_admin" /\ before[t].ran /\ res[t] = Returns(TRUE)
        /\ id[t] \notin Range(replaces)
        /\ op[t].user_id \in Range(_state.admins)
        /\ frozen.primary.kind = "full"
        /\ PrimaryData = frozen.primary
        /\ PrimaryData # Bytes(to_dict(_state))

\* C27: while one caller awaits its calls one after another (nothing fails, no
\* other process, persistence on), the calls that replaced the primary file did
\* so in the order they were issued and once each; a mutating operation that
\* applied its change (it returned True, an application, a score, or it is one
\* that always applies) is the last to have replaced the file and the file
\* holds the serialization of the state its body left; one that applied nothing
\* replaced nothing and the file is as it found it.
C27_OneFlushPerMutation ==
    _persistence_enabled =>
        /\ \A i, j \in DOMAIN replaces : i < j => replaces[i] < replaces[j]
        /\ \A t \in Tasks :
               (/\ op[t].name \in Mutators /\ before[t].ran
                /\ res[t].status = "returned") =>
                   LET applied ==
                           IF op[t].name = "pop_application" THEN res[t].value # None
                           ELSE IF op[t].name \in {"mark_application_status", "add_xp", "add_cup"}
                           THEN TRUE
                           ELSE res[t].value = TRUE
                   IN  /\ id[t] \in Range(replaces) =>
                              /\ applied
                              /\ replaces[Len(replaces)] = id[t]
                              /\ PrimaryData = Bytes(to_dict(after[t]))
                       /\ pc[t] = "idle" =>
                              IF applied THEN id[t] \in Range(replaces)
                              ELSE PrimaryData = pre[t]

\* the second of two mutations, a pop_application, has returned the application:
\* the file was replaced twice, first by the first call, and holds the state
\* without the application
C27_Witness ==
    \E t \in Tasks :
        /\ _persistence_enabled
        /\ pc[t] = "idle" /\ op[t].name = "pop_application" /\ before[t].ran
        /\ res[t] = Returns("application")
        /\ replaces = <<1, 2>>
        /\ id[t] = 2
        /\ PrimaryData = Bytes(to_dict(_state))
        /\ op[t].user_id \notin DOMAIN _state.applications

\* C28: the payload to_dict() builds of the state holds no null for an
\* optional field: no admin-profile field, no username, answer or language_code
\* of an application, no note or language_code of a history entry is None, and
\* no XP-profile field is None or empty.
C28_NoNullInPayload ==
    LET payload_now == to_dict(_state)
    IN  /\ \A k \in DOMAIN payload_now.admin_profiles :
               \A f \in DOMAIN payload_now.admin_profiles[k] :
                   payload_now.admin_profiles[k][f] # None
        /\ \A k \in DOMAIN payload_now.applications :
               /\ payload_now.applications[k].username # None
               /\ payload_now.applications[k].answer # None
               /\ payload_now.applications[k].language_code # None
        /\ \A k \in DOMAIN payload_now.application_history :
               /\ payload_now.application_history[k].note # None
               /\ payload_now.application_history[k].language_code # None
        /\ \A k \in DOMAIN payload_now.xp_profiles :
               \A f \in DOMAIN payload_now.xp_profiles[k] :
                   ~IsBlank(f, payload_now.xp_profiles[k][f])

\* C29: get_xp_leaderboard(chat, limit) returns min(limit, size of the ledger)
\* (user, score) pairs of the chat's ledger, each score at least the score
\* after it, pairs of equal score in the order the ledger got their users, and
\* it leaves out no pair that would stand before one it returns.
C29_LeaderboardOrder ==
    \A c \in ChatIds, limit \in Limits :
        LET got == get_xp_leaderboard(_state, c, limit)
            scores == Get(_state.xp, Str(c), <<>>)
            Index(pair) == CHOOSE i \in DOMAIN scores : scores[i] = pair
            Ahead(a, b) == a[2] > b[2] \/ (a[2] = b[2] /\ Index(a) < Index(b))
        IN  /\ Len(got) = IF limit < Len(scores) THEN limit ELSE Len(scores)
            /\ \A i \in DOMAIN got : got[i] \in Range(scores)
            /\ \A i, j \in DOMAIN got : i < j => Ahead(got[i], got[j])
            /\ \A i \in DOMAIN got, k \in DOMAIN scores :
                   scores[k] \notin Range(got) => Ahead(got[i], scores[k])

\* two users of one chat hold the same score, the user with the greater id
\* first in the ledger: the leaderboard lists them in the ledger's order
C29_Witness ==
    \E c \in ChatIds :
        LET scores == Get(_state.xp, Str(c), <<>>)
        IN  /\ pc[1] = "idle"
            /\ Len(scores) = 2
            /\ scores[1][1] = "2" /\ scores[2][1] = "1"
            /\ scores[1][2] = scores[2][2]
            /\ get_xp_leaderboard(_state, c, 2) = scores
            /\ get_xp_leaderboard(_state, c, 1) = <<scores[1]>>

\* C30: with no other process at the files, a step that completes
\* ensure_latest_snapshot() leaves in memory the change of every mutating
\* operation that had returned success before: the admin add_admin added is an
\* admin, the application add_application stored is pending, the score add_xp
\* left is the score, the cups add_cup left are the cups.
C30_EnsureKeepsMutations ==
    [][\A t, u \in Tasks :
          LET Present(s) ==
                  CASE op[u].name = "add_admin" ->
                          res[u].value = TRUE => op[u].user_id \in Range(s.admins)
                    [] op[u].name = "add_application" ->
                          res[u].value = TRUE => op[u].user_id \in DOMAIN s.applications
                    [] op[u].name = "add_xp" ->
                          ScoreOf(s, op[u].chat_id, op[u].user_id)
                              = ScoreOf(after[u], op[u].chat_id, op[u].user_id)
                    [] op[u].name = "add_cup" ->
                          CupsOf(s, op[u].chat_id) = CupsOf(after[u], op[u].chat_id)
                    [] OTHER -> TRUE
          IN  (/\ op[t].name = "ensure_latest_snapshot" /\ pc[t] # "idle" /\ pc'[t] = "idle"
               /\ op[u].name \in Mutators /\ pc[u] = "idle" /\ before[u].ran
               /\ res[u].status = "returned"
               /\ Present(_state)) =>
                  Present(_state')]_vars

\* ------------------------------------------------- the review of an application
\* handle_application_action: the admin presses approve or deny; the handler
\* pops the application and, when there was one, remembers the review in
\* context.user_data until the admin's note arrives.
ReviewStart(t) ==
    /\ pc[t] = "idle"
    /\ \E u \in Users, a \in {"approve", "deny"} :
           LET o == [name |-> "pop_application", user_id |-> u]
           IN  /\ Enter(t, o)
               /\ IF LockFast(waiters)
                  THEN Locked(t, o, ops + 1, waiters, now)
                  ELSE /\ Queue(t, "m_wait")
                       /\ Forget(t)
                       /\ UNCHANGED <<_state, _lock, _snapshot_signature, res, payload, plog, log, now>>
               /\ pending_review_note' =
                      IF u \notin DOMAIN _state.applications
                      THEN pending_review_note
                      ELSE [target_id |-> u, action |-> a,
                            language_code |-> _state.applications[u].language_code]
    /\ UNCHANGED <<fsVars, buf, fails, ext, budget, mirrorVars, failed, synced, extDirty>>
    /\ UNCHANGED <<_entries, mono, admitted, verdict, total_xp, progress>>

\* _process_admin_note_response: the note arrives, the decision is recorded
\* for the remembered target and the remembered review is dropped.
ReviewNote(t) ==
    /\ pc[t] = "idle"
    /\ pending_review_note.action # "none"
    /\ LET status == IF pending_review_note.action = "approve" THEN "approved" ELSE "denied"
           o == [name |-> "mark_application_status", user_id |-> pending_review_note.target_id,
                 status |-> status, language_code |-> pending_review_note.language_code]
       IN  /\ Enter(t, o)
           /\ IF LockFast(waiters)
              THEN \E c \in ClockOf(o) : Locked(t, o, ops + 1, waiters, c)
              ELSE /\ Queue(t, "m_wait")
                   /\ Forget(t)
                   /\ UNCHANGED <<_state, _lock, _snapshot_signature, res, payload, plog, log, now>>
    /\ pending_review_note' = [target_id |-> 0, action |-> "none", language_code |-> None]
    /\ UNCHANGED <<fsVars, buf, fails, ext, budget, mirrorVars, failed, synced, extDirty>>
    /\ UNCHANGED <<_entries, mono, admitted, verdict, total_xp, progress>>

\* the applicant and one reviewing admin, one call at a time
MaxReviewOps == 4

NextReview ==
    \/ AddApplication(1)
    \/ WithdrawApplication(1)
    \/ ReviewStart(1)
    \/ ReviewNote(1)
    \/ OpenTmp(1)
    \/ WriteTmp(1)
    \/ ReplaceTmp(1)
    \/ FinishSave(1)

ReviewSpec == Built(FALSE, MaxReviewOps) /\ [][NextReview]_vars

\* ------------------------------------------------------- fair scheduling
\* Concurrent add_cup, save() and ensure_latest_snapshot() calls beside a
\* process that may delete the primary file, so that the load() inside
\* ensure_latest_snapshot() can raise while the lock is held. Every mutating
\* operation takes and leaves the lock the way add_cup does.
NextLive ==
    \/ \E t \in Tasks :
        \/ AddCup(t)
        \/ SaveCall(t)
        \/ EnsureLatestSnapshot(t)
        \/ Step(t)
        \/ ResumeMutate(t)
        \/ ResumeSnapshot(t)
        \/ ResumeEnsure(t)
    \/ ExternalDelete

\* the event loop runs one coroutine at a time: a step of coroutine t moves
\* pc[t] and leaves the other coroutines where they are
Turn(t) ==
    \E p \in {"idle", "m_wait", "s_wait", "e_wait", "l_open", "l_read", "l_done",
              "w_open", "w_write", "w_replace", "w_cleanup", "w_done", "b_done"} :
        /\ p # pc[t]
        /\ pc' = [pc EXCEPT ![t] = p]

\* The event loop runs every coroutine that is ready, and a thread-pool job
\* finishes: a started call keeps taking its steps. Nothing obliges a caller
\* to issue a call or the other process to act.
LiveSpec ==
    /\ Init
    /\ [][NextLive]_vars
    /\ \A t \in Tasks :
           WF_pc(Turn(t) /\ (Step(t) \/ ResumeMutate(t) \/ ResumeSnapshot(t) \/ ResumeEnsure(t)))

\* ------------------------------------------------------- the rate limiter
\* RateLimitGuard(interval, burst), scaled down
_interval == 2
_burst == 2

\* is_allowed that also drops an entry exactly `interval` old
is_allowedEvictsAtInterval(entries, key, t) ==
    LET RECURSIVE popleft(_)
        popleft(bucket) ==
            IF bucket # <<>> /\ t - Head(bucket) >= _interval THEN popleft(Tail(bucket)) ELSE bucket
        bucket == popleft(entries[key])
    IN  IF Len(bucket) >= _burst
        THEN [entries |-> [entries EXCEPT ![key] = bucket], result |-> FALSE]
        ELSE [entries |-> [entries EXCEPT ![key] = Append(bucket, t)], result |-> TRUE]

\* the body of is_allowed under the lock, with t the value of time.monotonic()
is_allowed(entries, key, t) ==
    LET RECURSIVE popleft(_)
        popleft(bucket) ==
            IF bucket # <<>> /\ t - Head(bucket) > _interval THEN popleft(Tail(bucket)) ELSE bucket
        bucket == popleft(entries[key])
    IN  IF Len(bucket) >= _burst
        THEN [entries |-> [entries EXCEPT ![key] = bucket], result |-> FALSE]
        ELSE [entries |-> [entries EXCEPT ![key] = Append(bucket, t)], result |-> TRUE]

\* the monotonic clock stops at MaxMono and a run has MaxRateCalls calls
MaxMono == 5
MaxRateCalls == 5

\* A call of is_allowed(key). The body holds the lock and has no await, so the
\* calls of concurrent callers run one after another, in any order; the clock
\* has not gone back since the previous call.
IsAllowed(key) ==
    /\ verdict.n < budget
    /\ \E t \in mono..MaxMono :
           LET r == is_allowed(_entries, key, t)
           IN  /\ mono' = t
               /\ _entries' = r.entries
               /\ admitted' = IF r.result THEN [admitted EXCEPT ![key] = Append(@, t)] ELSE admitted
               /\ verdict' = [n |-> verdict.n + 1, key |-> key, now |-> t, allowed |-> r.result,
                              earlier |-> admitted[key], entries |-> _entries]
    /\ UNCHANGED <<engineVars, pc, op, res, payload, fsVars, buf, now, ops, fails, ext, budget,
                   mirrorVars, histVars, pending_review_note, total_xp, progress>>

RateSpec == Built(FALSE, MaxRateCalls) /\ [][\E key \in Users : IsAllowed(key)]_vars

\* ------------------------------------------------------------- levels
\* the cumulative XP a level requires; `//` on a non-negative product
xp_required_for_level(level) == IF level <= 0 THEN 0 ELSE (5 * level * (level + 3)) \div 2

\* calculate_level_progress whose loop stops at a total equal to the threshold
calculate_level_progressStopsEarly(x) ==
    LET safe_total == IF x > 0 THEN x ELSE 0
        RECURSIVE while(_)
        while(level) ==
            IF safe_total > xp_required_for_level(level + 1) THEN while(level + 1) ELSE level
        level == while(0)
    IN  [level |-> level, total_xp |-> safe_total,
         current_threshold |-> xp_required_for_level(level),
         next_threshold |-> xp_required_for_level(level + 1)]

\* calculate_level_progress(total_xp) for an integer argument
calculate_level_progress(x) ==
    LET safe_total == IF x > 0 THEN x ELSE 0
        RECURSIVE while(_)
        while(level) ==
            IF safe_total >= xp_required_for_level(level + 1) THEN while(level + 1) ELSE level
        level == while(0)
    IN  [level |-> level, total_xp |-> safe_total,
         current_threshold |-> xp_required_for_level(level),
         next_threshold |-> xp_required_for_level(level + 1)]

\* the totals asked about run from -XpBelow to MaxXp
XpBelow == 5
MaxXp == 120

CalculateLevelProgress ==
    /\ \E x \in (0 - XpBelow)..MaxXp :
           /\ total_xp' = x
           /\ progress' = calculate_level_progress(x)
    /\ UNCHANGED <<engineVars, pc, op, res, payload, fsVars, buf, now, ops, fails, ext, budget,
                   mirrorVars, histVars, pending_review_note, _entries, mono, admitted, verdict>>

LevelSpec == Built(FALSE, MaxOps) /\ [][CalculateLevelProgress]_vars

\* C31: on a file system that reports no error of its own, no save() raises,
\* whether called directly or by a mutating operation, however many of them
\* run beside each other through the one temporary path.
C31_SavesDoNotCollide ==
    /\ failed = {}
    /\ \A t \in Tasks :
           (pc[t] = "idle" /\ op[t].name \in Mutators \cup {"save"} /\ op[t].name # "add_xp") =>
               res[t].status # "raised"

\* C32: a user whose history says "approved" has no live application, also
\* when the admin's pop_application and the later
\* mark_application_status(u, "approved") are separate calls between which
\* the applicant acts.
C32_ApprovedHasNoApplication ==
    \A u \in DOMAIN _state.application_history :
        _state.application_history[u].status = "approved" => u \notin DOMAIN _state.applications

\* C33: between calls, a user whose history says "pending" has a live
\* application, in every state reached through add_application,
\* pop_application, withdraw_application and mark_application_status.
C33_PendingHasApplication ==
    (\A t \in Tasks : pc[t] = "idle") =>
        \A u \in DOMAIN _state.application_history :
            _state.application_history[u].status = "pending" => u \in DOMAIN _state.applications

\* C34: between calls, no language bucket of the question overrides is empty,
\* whatever the set_application_question calls returned.
C34_NoEmptyBucket ==
    (\A t \in Tasks : pc[t] = "idle") =>
        \A l \in DOMAIN _state.application_questions :
            DOMAIN _state.application_questions[l] # {}

\* C35: with a backup path configured, once every call has returned without
\* an exception on a file system that reported no error, the payload stored in
\* the mirror's raw_snapshot row is the payload of the primary file, whatever
\* the interleaving of the concurrent flushes was.
C35_BackupMatchesPrimary ==
    (/\ _backup_path
     /\ backup.kind = "full"
     /\ fails = 0 /\ failed = {} /\ bfailed = {}
     /\ \A t \in Tasks : pc[t] = "idle" /\ res[t].status # "raised") =>
        PrimaryData = Bytes(backup.p)

\* C36: under fair scheduling every call that has started returns, and a
\* lock that is held is released: no interleaving of mutating calls, save()
\* and ensure_latest_snapshot() blocks for ever, also when
\* ensure_latest_snapshot() runs load() with the lock held or load() raises
\* there.
C36_EveryCallReturns ==
    /\ \A t \in Tasks : (pc[t] # "idle") ~> (pc[t] = "idle")
    /\ (_lock # 0) ~> (_lock = 0)

\* load() raised inside ensure_latest_snapshot() while a call was queued on
\* the lock, and the lock is free again
C36_Witness ==
    \E t \in Tasks :
        /\ pc[t] = "idle"
        /\ op[t].name = "ensure_latest_snapshot"
        /\ res[t] = Raises
        /\ _lock = 0
        /\ waiters # <<>>

\* C37: in every state reached through add_admin and remove_admin, every key
\* of admin_profiles is a current admin and no stored profile is empty.
C37_ProfilesBelongToAdmins ==
    \A k \in DOMAIN _state.admin_profiles :
        /\ k \in Range(_state.admins)
        /\ _state.admin_profiles[k] # EmptyMap

\* remove_admin has dropped the profile a previous add_admin had stored
C37_Witness ==
    \E t \in Tasks :
        /\ pc[t] = "idle"
        /\ op[t].name = "remove_admin"
        /\ res[t] = Returns(TRUE)
        /\ before[t].ran
        /\ op[t].user_id \in DOMAIN before[t].state.admin_profiles
        /\ op[t].user_id \notin DOMAIN _state.admin_profiles
        /\ op[t].user_id \notin Range(_state.admins)

\* C38: is_allowed(key) admits at most `burst` calls of a key within any
\* window of length `interval`; it returns True exactly when fewer than
\* `burst` of the calls admitted before for that key are no older than
\* `interval`; the bucket of the key holds the admitted calls that are no
\* older than `interval` and nothing else; the buckets of the other keys are
\* left as they were.
C38_AtMostBurstPerInterval ==
    LET Recent(times, t) == SelectSeq(times, LAMBDA a : t - a <= _interval)
    IN  /\ \A k \in Users : \A i \in DOMAIN admitted[k] :
               (i + _burst) \in DOMAIN admitted[k] =>
                   admitted[k][i + _burst] - admitted[k][i] > _interval
        /\ verdict.n > 0 =>
               /\ verdict.allowed = (Len(Recent(verdict.earlier, verdict.now)) < _burst)
               /\ _entries[verdict.key] = Recent(admitted[verdict.key], verdict.now)
               /\ \A k \in Users \ {verdict.key} : _entries[k] = verdict.entries[k]

\* a key that was admitted more than `burst` times as its old entries expired
\* is refused, while the other key has been admitted meanwhile
C38_Witness ==
    /\ verdict.n > 0
    /\ ~verdict.allowed
    /\ Len(admitted[verdict.key]) > _burst
    /\ Len(_entries[verdict.key]) = _burst
    /\ \E k \in Users \ {verdict.key} : _entries[k] # <<>>

\* C39: for every integer total_xp, calculate_level_progress(total_xp)
\* returns a level >= 0 with xp_required_for_level(level) <= max(0, total_xp)
\* < xp_required_for_level(level + 1), next_threshold above current_threshold,
\* and no larger total gives a smaller level.
C39_LevelBracketsTotal ==
    progress.level # -1 =>
        LET safe_total == IF total_xp > 0 THEN total_xp ELSE 0
        IN  /\ progress.level >= 0
            /\ progress.total_xp = safe_total
            /\ progress.current_threshold = xp_required_for_level(progress.level)
            /\ progress.next_threshold = xp_required_for_level(progress.level + 1)
            /\ progress.current_threshold <= safe_total
            /\ safe_total < progress.next_threshold
            /\ progress.next_threshold > progress.current_threshold
            /\ \A larger \in total_xp..MaxXp :
                   calculate_level_progress(larger).level >= progress.level

\* a total that is exactly the threshold of level 1
C39_Witness ==
    /\ total_xp = 10
    /\ progress = [level |-> 1, total_xp |-> 10, current_threshold |-> 10, next_threshold |-> 25]

====
